---------------------------- MODULE Spec2Model ----------------------------
(***************************************************************************)
(* Model of the virtual traffic cabinet (vtc.hpp): the cabinet variable    *)
(* table, the SDLC frame element codec, the frame definitions, the MMU16   *)
(* channel-compatibility packer, the command/response dispatcher and the   *)
(* hardware-in-the-loop controller interface (HilsCI).                     *)
(***************************************************************************)
EXTENDS Integers, Sequences, FiniteSets, TLC

VARIABLES
  variable,        \* the cabinet variables: variable<T>().value for every T
  buffer,          \* serial::buffer, the global buffer for SDLC I/O
  ret,             \* the operation performed last, its argument and result
  ncalls,          \* number of calls of serial::Dispatch made by a caller
  sdlc_enabled_,   \* HilsCI::sdlc_enabled_
  ec_,             \* SerialDevice::apimodule_.ec_, the last error code
  threads,         \* the detached threads of enable_sdlc, in order of creation
  nreads,          \* number of frames the serial device has delivered
  initok_,             \* TsmCI::initok_
  loadswitch_wirings_, \* HilsCI::loadswitch_wirings_: the signal head of each channel
  detector_wirings_,   \* HilsCI::detector_wirings_: the sensor ids of each channel
  nstarts              \* number of simulations the simulator has started

wirings == <<initok_, loadswitch_wirings_, detector_wirings_, nstarts>>

hils == <<sdlc_enabled_, ec_, threads, nreads, initok_, loadswitch_wirings_,
          detector_wirings_, nstarts>>

vars == <<variable, buffer, ret, ncalls, sdlc_enabled_, ec_, threads, nreads,
          initok_, loadswitch_wirings_, detector_wirings_, nstarts>>

(***************************************************************************)
(* Bit, Byte                                                               *)
(***************************************************************************)
Off == 0
On == 1

\* Bit k (0 = least significant) of byte b: (b & (0x01 << k)) != 0.
BitAnd(b, k) == (b \div (2 ^ k)) % 2

\* b | (i << k) for a bit value i.
BitOr(b, i, k) == IF i = 1 /\ BitAnd(b, k) = 0 THEN b + 2 ^ k ELSE b

max_sdlc_frame_bytesize == 64

\* The element of a one-element set.
The(S) == CHOOSE x \in S : TRUE

(***************************************************************************)
(* std::span<const Byte>: a pointer and a size.  mem is the storage the    *)
(* pointer addresses (the bytes of the span followed by what lies behind   *)
(* them); operator[] does no bounds check and reads mem at any index.      *)
(***************************************************************************)
Span(mem, size) == [mem |-> mem, size |-> size]

At(a_span, i) == a_span.mem[i + 1]

Bytes(a_span) == SubSeq(a_span.mem, 1, a_span.size)

(***************************************************************************)
(* A cabinet variable is variable<T> for a type T, written here as the     *)
(* triple <<namespace, name, index>> (index 0 when T is not a template).   *)
(* A table tbl gives the value of every variable: tbl[namespace][name]     *)
(* [index] is variable<T>().value.                                         *)
(***************************************************************************)
Value(tbl, T) == tbl[T[1]][T[2]][T[3]]

Store(tbl, T, v) == [tbl EXCEPT ![T[1]][T[2]][T[3]] = v]

(***************************************************************************)
(* Frame elements.  An element binds the variable ref_var to the bit or    *)
(* byte position pos.  The Assign operators are operator<< (frame to       *)
(* variable), the Generate operators are operator>> (variable to frame).   *)
(***************************************************************************)
FrameBit(T, BitPos) == [kind |-> "FrameBit", ref_var |-> T, pos |-> BitPos]

FrameByte(T, BytePos) == [kind |-> "FrameByte", ref_var |-> T, pos |-> BytePos]

FrameWord(T, BytePos) == [kind |-> "FrameWord", ref_var |-> T, pos |-> BytePos]

\* The bit stored into every variable of the element's namespace that has the
\* index of the element's variable.
FrameBitAssignByIndex(el, a_data_in, tbl) ==
  LET bytepos == el.pos \div 8
      nbits_to_shift == el.pos % 8
      value == BitAnd(At(a_data_in, bytepos), nbits_to_shift)
      ns == el.ref_var[1]
      index == el.ref_var[3]
  IN  [tbl EXCEPT ![ns] =
        [name \in DOMAIN @ |->
          [i \in DOMAIN @[name] |-> IF i = index THEN value ELSE @[name][i]]]]

FrameBitAssign(el, a_data_in, tbl) ==
  LET bytepos == el.pos \div 8
      nbits_to_shift == el.pos % 8
      value == BitAnd(At(a_data_in, bytepos), nbits_to_shift)
  IN  Store(tbl, el.ref_var, value)

\* The bit of an element counted from the most significant bit of its byte.
FrameBitGenerateMsbFirst(el, a_data_out, tbl) ==
  LET byte_pos == el.pos \div 8
      num_of_bits_to_shift == 7 - (el.pos % 8)
      i == IF Value(tbl, el.ref_var) = On THEN 1 ELSE 0
  IN  [a_data_out EXCEPT ![byte_pos + 1] = BitOr(@, i, num_of_bits_to_shift)]

\* The bit of an element written over the bit that the output holds.
FrameBitGenerateOverwrite(el, a_data_out, tbl) ==
  LET byte_pos == el.pos \div 8
      num_of_bits_to_shift == el.pos % 8
      i == IF Value(tbl, el.ref_var) = On THEN 1 ELSE 0
      cleared == a_data_out[byte_pos + 1]
                   - BitAnd(a_data_out[byte_pos + 1], num_of_bits_to_shift)
                       * 2 ^ num_of_bits_to_shift
  IN  [a_data_out EXCEPT ![byte_pos + 1] = BitOr(cleared, i, num_of_bits_to_shift)]

FrameBitGenerate(el, a_data_out, tbl) ==
  LET byte_pos == el.pos \div 8
      num_of_bits_to_shift == el.pos % 8
      i == IF Value(tbl, el.ref_var) = On THEN 1 ELSE 0
  IN  [a_data_out EXCEPT ![byte_pos + 1] = BitOr(@, i, num_of_bits_to_shift)]

FrameByteAssign(el, a_data_in, tbl) ==
  Store(tbl, el.ref_var, At(a_data_in, el.pos))

FrameByteGenerate(el, a_data_out, tbl) ==
  [a_data_out EXCEPT ![el.pos + 1] = Value(tbl, el.ref_var)]

\* A word read with its high byte first.
FrameWordAssignBigEndian(el, a_data_in, tbl) ==
  Store(tbl, el.ref_var,
        (At(a_data_in, el.pos + 1) % 256) + 256 * At(a_data_in, el.pos))

FrameWordAssign(el, a_data_in, tbl) ==
  Store(tbl, el.ref_var,
        (At(a_data_in, el.pos) % 256) + 256 * At(a_data_in, el.pos + 1))

FrameWordGenerate(el, a_data_out, tbl) ==
  [a_data_out EXCEPT ![el.pos + 1] = Value(tbl, el.ref_var) % 256,
                     ![el.pos + 2] = Value(tbl, el.ref_var) \div 256]

ElementAssign(el, a_data_in, tbl) ==
  CASE el.kind = "FrameBit"  -> FrameBitAssign(el, a_data_in, tbl)
    [] el.kind = "FrameByte" -> FrameByteAssign(el, a_data_in, tbl)
    [] el.kind = "FrameWord" -> FrameWordAssign(el, a_data_in, tbl)

ElementGenerate(el, a_data_out, tbl) ==
  CASE el.kind = "FrameBit"  -> FrameBitGenerate(el, a_data_out, tbl)
    [] el.kind = "FrameByte" -> FrameByteGenerate(el, a_data_out, tbl)
    [] el.kind = "FrameWord" -> FrameWordGenerate(el, a_data_out, tbl)

(***************************************************************************)
(* Frame<Address, FrameID, FrameByteSize, T, Ts...>                        *)
(***************************************************************************)
Frame(Address, FrameID, FrameByteSize, T, Ts) ==
  [address |-> Address, id |-> FrameID, bytesize |-> FrameByteSize,
   type |-> T, m_frame_elements |-> Ts]

\* Frame::Assign<I>, for the elements I..J of the frame: each reads the input,
\* one after the other in the order of their declaration.  The range is halved
\* and the first half is evaluated before the second starts from its result.
RECURSIVE Assign(_, _, _, _, _)
Assign(I, J, a_frame, a_data_in, tbl) ==
  IF I > J THEN tbl
  ELSE IF I = J THEN ElementAssign(a_frame.m_frame_elements[I], a_data_in, tbl)
  ELSE LET M == (I + J) \div 2
       IN  The({ Assign(M + 1, J, a_frame, a_data_in, first) :
                   first \in { Assign(I, M, a_frame, a_data_in, tbl) } })

\* Frame::Generate<I>, for the elements I..J of the frame: each writes the
\* output, one after the other in the order of their declaration.
RECURSIVE Generate(_, _, _, _, _)
Generate(I, J, a_frame, a_data_out, tbl) ==
  IF I > J THEN a_data_out
  ELSE IF I = J THEN ElementGenerate(a_frame.m_frame_elements[I], a_data_out, tbl)
  ELSE LET M == (I + J) \div 2
       IN  The({ Generate(M + 1, J, a_frame, first, tbl) :
                   first \in { Generate(I, M, a_frame, a_data_out, tbl) } })

\* The elements of a frame read the input from the last declared to the first.
FrameInLastElementFirst(a_frame, a_data_in, tbl) ==
  LET n == Len(a_frame.m_frame_elements)
  IN  Assign(1, n,
             [a_frame EXCEPT !.m_frame_elements = [k \in 1..n |-> @[n + 1 - k]]],
             a_data_in, tbl)

\* The elements of a frame stored into the variables of the same name and
\* index of io::output, where there is one.
FrameInIntoOutputDomain(a_frame, a_data_in, tbl) ==
  LET n == Len(a_frame.m_frame_elements)
      Moved(T) == IF /\ T[2] \in DOMAIN tbl["io::output"]
                     /\ T[3] \in DOMAIN tbl["io::output"][T[2]]
                  THEN <<"io::output", T[2], T[3]>> ELSE T
  IN  Assign(1, n,
             [a_frame EXCEPT !.m_frame_elements =
                [k \in 1..n |-> [@[k] EXCEPT !.ref_var = Moved(@)]]],
             a_data_in, tbl)

\* Frame::operator<< of a receivable frame; yields the variables afterwards.
FrameIn(a_frame, a_data_in, tbl) ==
  Assign(1, Len(a_frame.m_frame_elements), a_frame, a_data_in, tbl)

\* The header and the elements written over the output as it stands.
FrameOutWithoutFill(a_frame, a_data_out, tbl) ==
  LET header == [a_data_out EXCEPT ![1] = a_frame.address,
                                   ![2] = 131,
                                   ![3] = a_frame.id]
  IN  The({ Generate(1, Len(a_frame.m_frame_elements), a_frame, h, t) :
              h \in {header}, t \in {tbl} })

\* Frame::operator>> of a generative frame; yields the output afterwards.
FrameOut(a_frame, a_data_out, tbl) ==
  LET filled == [i \in 1..Len(a_data_out) |-> 0]
      header == [filled EXCEPT ![1] = a_frame.address,
                               ![2] = 131,
                               ![3] = a_frame.id]
  IN  The({ Generate(1, Len(a_frame.m_frame_elements), a_frame, h, t) :
              h \in {header}, t \in {tbl} })

(***************************************************************************)
(* Frame definitions                                                       *)
(***************************************************************************)
\* LoadSwitchDriversFrame: address 16, frame id 0, 16 bytes (vtc.hpp:2089-2217).
LoadSwitchDriversFrame ==
  Frame(16, 0, 16, "SSR_CommandFrameType", <<
    FrameBit(<<"mmu", "ChannelGreenWalkDriver", 1>>, 24),
    FrameBit(<<"mmu", "ChannelGreenWalkDriver", 1>>, 25),
    FrameBit(<<"mmu", "ChannelGreenWalkDriver", 2>>, 26),
    FrameBit(<<"mmu", "ChannelGreenWalkDriver", 2>>, 27),
    FrameBit(<<"mmu", "ChannelGreenWalkDriver", 3>>, 28),
    FrameBit(<<"mmu", "ChannelGreenWalkDriver", 3>>, 29),
    FrameBit(<<"mmu", "ChannelGreenWalkDriver", 4>>, 30),
    FrameBit(<<"mmu", "ChannelGreenWalkDriver", 4>>, 31),
    FrameBit(<<"mmu", "ChannelGreenWalkDriver", 5>>, 32),
    FrameBit(<<"mmu", "ChannelGreenWalkDriver", 5>>, 33),
    FrameBit(<<"mmu", "ChannelGreenWalkDriver", 6>>, 34),
    FrameBit(<<"mmu", "ChannelGreenWalkDriver", 6>>, 35),
    FrameBit(<<"mmu", "ChannelGreenWalkDriver", 7>>, 36),
    FrameBit(<<"mmu", "ChannelGreenWalkDriver", 7>>, 37),
    FrameBit(<<"mmu", "ChannelGreenWalkDriver", 8>>, 38),
    FrameBit(<<"mmu", "ChannelGreenWalkDriver", 8>>, 39),
    FrameBit(<<"mmu", "ChannelGreenWalkDriver", 9>>, 40),
    FrameBit(<<"mmu", "ChannelGreenWalkDriver", 9>>, 41),
    FrameBit(<<"mmu", "ChannelGreenWalkDriver", 10>>, 42),
    FrameBit(<<"mmu", "ChannelGreenWalkDriver", 10>>, 43),
    FrameBit(<<"mmu", "ChannelGreenWalkDriver", 11>>, 44),
    FrameBit(<<"mmu", "ChannelGreenWalkDriver", 11>>, 45),
    FrameBit(<<"mmu", "ChannelGreenWalkDriver", 12>>, 46),
    FrameBit(<<"mmu", "ChannelGreenWalkDriver", 12>>, 47),
    FrameBit(<<"mmu", "ChannelGreenWalkDriver", 13>>, 48),
    FrameBit(<<"mmu", "ChannelGreenWalkDriver", 13>>, 49),
    FrameBit(<<"mmu", "ChannelGreenWalkDriver", 14>>, 50),
    FrameBit(<<"mmu", "ChannelGreenWalkDriver", 14>>, 51),
    FrameBit(<<"mmu", "ChannelGreenWalkDriver", 15>>, 52),
    FrameBit(<<"mmu", "ChannelGreenWalkDriver", 15>>, 53),
    FrameBit(<<"mmu", "ChannelGreenWalkDriver", 16>>, 54),
    FrameBit(<<"mmu", "ChannelGreenWalkDriver", 16>>, 55),
    FrameBit(<<"mmu", "ChannelYellowPedClearDriver", 1>>, 56),
    FrameBit(<<"mmu", "ChannelYellowPedClearDriver", 1>>, 57),
    FrameBit(<<"mmu", "ChannelYellowPedClearDriver", 2>>, 58),
    FrameBit(<<"mmu", "ChannelYellowPedClearDriver", 2>>, 59),
    FrameBit(<<"mmu", "ChannelYellowPedClearDriver", 3>>, 60),
    FrameBit(<<"mmu", "ChannelYellowPedClearDriver", 3>>, 61),
    FrameBit(<<"mmu", "ChannelYellowPedClearDriver", 4>>, 62),
    FrameBit(<<"mmu", "ChannelYellowPedClearDriver", 4>>, 63),
    FrameBit(<<"mmu", "ChannelYellowPedClearDriver", 5>>, 64),
    FrameBit(<<"mmu", "ChannelYellowPedClearDriver", 5>>, 65),
    FrameBit(<<"mmu", "ChannelYellowPedClearDriver", 6>>, 66),
    FrameBit(<<"mmu", "ChannelYellowPedClearDriver", 6>>, 67),
    FrameBit(<<"mmu", "ChannelYellowPedClearDriver", 7>>, 68),
    FrameBit(<<"mmu", "ChannelYellowPedClearDriver", 7>>, 69),
    FrameBit(<<"mmu", "ChannelYellowPedClearDriver", 8>>, 70),
    FrameBit(<<"mmu", "ChannelYellowPedClearDriver", 8>>, 71),
    FrameBit(<<"mmu", "ChannelYellowPedClearDriver", 9>>, 72),
    FrameBit(<<"mmu", "ChannelYellowPedClearDriver", 9>>, 73),
    FrameBit(<<"mmu", "ChannelYellowPedClearDriver", 10>>, 74),
    FrameBit(<<"mmu", "ChannelYellowPedClearDriver", 10>>, 75),
    FrameBit(<<"mmu", "ChannelYellowPedClearDriver", 11>>, 76),
    FrameBit(<<"mmu", "ChannelYellowPedClearDriver", 11>>, 77),
    FrameBit(<<"mmu", "ChannelYellowPedClearDriver", 12>>, 78),
    FrameBit(<<"mmu", "ChannelYellowPedClearDriver", 12>>, 79),
    FrameBit(<<"mmu", "ChannelYellowPedClearDriver", 13>>, 80),
    FrameBit(<<"mmu", "ChannelYellowPedClearDriver", 13>>, 81),
    FrameBit(<<"mmu", "ChannelYellowPedClearDriver", 14>>, 82),
    FrameBit(<<"mmu", "ChannelYellowPedClearDriver", 14>>, 83),
    FrameBit(<<"mmu", "ChannelYellowPedClearDriver", 15>>, 84),
    FrameBit(<<"mmu", "ChannelYellowPedClearDriver", 15>>, 85),
    FrameBit(<<"mmu", "ChannelYellowPedClearDriver", 16>>, 86),
    FrameBit(<<"mmu", "ChannelYellowPedClearDriver", 16>>, 87),
    FrameBit(<<"mmu", "ChannelRedDoNotWalkDriver", 1>>, 88),
    FrameBit(<<"mmu", "ChannelRedDoNotWalkDriver", 1>>, 89),
    FrameBit(<<"mmu", "ChannelRedDoNotWalkDriver", 2>>, 90),
    FrameBit(<<"mmu", "ChannelRedDoNotWalkDriver", 2>>, 91),
    FrameBit(<<"mmu", "ChannelRedDoNotWalkDriver", 3>>, 92),
    FrameBit(<<"mmu", "ChannelRedDoNotWalkDriver", 3>>, 93),
    FrameBit(<<"mmu", "ChannelRedDoNotWalkDriver", 4>>, 94),
    FrameBit(<<"mmu", "ChannelRedDoNotWalkDriver", 4>>, 95),
    FrameBit(<<"mmu", "ChannelRedDoNotWalkDriver", 5>>, 96),
    FrameBit(<<"mmu", "ChannelRedDoNotWalkDriver", 5>>, 97),
    FrameBit(<<"mmu", "ChannelRedDoNotWalkDriver", 6>>, 98),
    FrameBit(<<"mmu", "ChannelRedDoNotWalkDriver", 6>>, 99),
    FrameBit(<<"mmu", "ChannelRedDoNotWalkDriver", 7>>, 100),
    FrameBit(<<"mmu", "ChannelRedDoNotWalkDriver", 7>>, 101),
    FrameBit(<<"mmu", "ChannelRedDoNotWalkDriver", 8>>, 102),
    FrameBit(<<"mmu", "ChannelRedDoNotWalkDriver", 8>>, 103),
    FrameBit(<<"mmu", "ChannelRedDoNotWalkDriver", 9>>, 104),
    FrameBit(<<"mmu", "ChannelRedDoNotWalkDriver", 9>>, 105),
    FrameBit(<<"mmu", "ChannelRedDoNotWalkDriver", 10>>, 106),
    FrameBit(<<"mmu", "ChannelRedDoNotWalkDriver", 10>>, 107),
    FrameBit(<<"mmu", "ChannelRedDoNotWalkDriver", 11>>, 108),
    FrameBit(<<"mmu", "ChannelRedDoNotWalkDriver", 11>>, 109),
    FrameBit(<<"mmu", "ChannelRedDoNotWalkDriver", 12>>, 110),
    FrameBit(<<"mmu", "ChannelRedDoNotWalkDriver", 12>>, 111),
    FrameBit(<<"mmu", "ChannelRedDoNotWalkDriver", 13>>, 112),
    FrameBit(<<"mmu", "ChannelRedDoNotWalkDriver", 13>>, 113),
    FrameBit(<<"mmu", "ChannelRedDoNotWalkDriver", 14>>, 114),
    FrameBit(<<"mmu", "ChannelRedDoNotWalkDriver", 14>>, 115),
    FrameBit(<<"mmu", "ChannelRedDoNotWalkDriver", 15>>, 116),
    FrameBit(<<"mmu", "ChannelRedDoNotWalkDriver", 15>>, 117),
    FrameBit(<<"mmu", "ChannelRedDoNotWalkDriver", 16>>, 118),
    FrameBit(<<"mmu", "ChannelRedDoNotWalkDriver", 16>>, 119),
    FrameBit(<<"mmu", "LoadSwitchFlash", 0>>, 127)
  >>)

\* MMUInputStatusRequestFrame: address 16, frame id 1, 3 bytes (vtc.hpp:2228-2234).
MMUInputStatusRequestFrame ==
  Frame(16, 1, 3, "SSR_CommandFrameType", <<>>)

\* MMUProgrammingRequestFrame: address 16, frame id 3, 3 bytes (vtc.hpp:2246-2252).
MMUProgrammingRequestFrame ==
  Frame(16, 3, 3, "SSR_CommandFrameType", <<>>)

\* DateTimeBroadcastFrame: address 255, frame id 9, 12 bytes (vtc.hpp:2263-2305).
DateTimeBroadcastFrame ==
  Frame(255, 9, 12, "SSR_CommandFrameType", <<
    FrameByte(<<"broadcast", "CuReportedMonth", 0>>, 3),
    FrameByte(<<"broadcast", "CuReportedDay", 0>>, 4),
    FrameByte(<<"broadcast", "CuReportedYear", 0>>, 5),
    FrameByte(<<"broadcast", "CuReportedHour", 0>>, 6),
    FrameByte(<<"broadcast", "CuReportedMinutes", 0>>, 7),
    FrameByte(<<"broadcast", "CuReportedSeconds", 0>>, 8),
    FrameByte(<<"broadcast", "CuReportedTenthsOfSeconds", 0>>, 9),
    FrameBit(<<"broadcast", "CuReportedTfBiuPresence", 1>>, 80),
    FrameBit(<<"broadcast", "CuReportedTfBiuPresence", 2>>, 81),
    FrameBit(<<"broadcast", "CuReportedTfBiuPresence", 3>>, 82),
    FrameBit(<<"broadcast", "CuReportedTfBiuPresence", 4>>, 83),
    FrameBit(<<"broadcast", "CuReportedTfBiuPresence", 5>>, 84),
    FrameBit(<<"broadcast", "CuReportedTfBiuPresence", 6>>, 85),
    FrameBit(<<"broadcast", "CuReportedTfBiuPresence", 7>>, 86),
    FrameBit(<<"broadcast", "CuReportedTfBiuPresence", 8>>, 87),
    FrameBit(<<"broadcast", "CuReportedDrBiuPresence", 1>>, 88),
    FrameBit(<<"broadcast", "CuReportedDrBiuPresence", 2>>, 89),
    FrameBit(<<"broadcast", "CuReportedDrBiuPresence", 3>>, 90),
    FrameBit(<<"broadcast", "CuReportedDrBiuPresence", 4>>, 91),
    FrameBit(<<"broadcast", "CuReportedDrBiuPresence", 5>>, 92),
    FrameBit(<<"broadcast", "CuReportedDrBiuPresence", 6>>, 93),
    FrameBit(<<"broadcast", "CuReportedDrBiuPresence", 7>>, 94),
    FrameBit(<<"broadcast", "CuReportedDrBiuPresence", 8>>, 95)
  >>)

\* TfBiu01_OutputsInputsRequestFrame: address 0, frame id 10, 11 bytes (vtc.hpp:2316-2401).
TfBiu01_OutputsInputsRequestFrame ==
  Frame(0, 10, 11, "SSR_CommandFrameType", <<
    FrameBit(<<"io::output", "ChannelRedDoNotWalkDriver", 1>>, 24),
    FrameBit(<<"io::output", "ChannelRedDoNotWalkDriver", 1>>, 25),
    FrameBit(<<"io::output", "ChannelYellowPedClearDriver", 1>>, 26),
    FrameBit(<<"io::output", "ChannelYellowPedClearDriver", 1>>, 27),
    FrameBit(<<"io::output", "ChannelGreenWalkDriver", 1>>, 28),
    FrameBit(<<"io::output", "ChannelGreenWalkDriver", 1>>, 29),
    FrameBit(<<"io::output", "ChannelRedDoNotWalkDriver", 2>>, 30),
    FrameBit(<<"io::output", "ChannelRedDoNotWalkDriver", 2>>, 31),
    FrameBit(<<"io::output", "ChannelYellowPedClearDriver", 2>>, 32),
    FrameBit(<<"io::output", "ChannelYellowPedClearDriver", 2>>, 33),
    FrameBit(<<"io::output", "ChannelGreenWalkDriver", 2>>, 34),
    FrameBit(<<"io::output", "ChannelGreenWalkDriver", 2>>, 35),
    FrameBit(<<"io::output", "ChannelRedDoNotWalkDriver", 3>>, 36),
    FrameBit(<<"io::output", "ChannelRedDoNotWalkDriver", 3>>, 37),
    FrameBit(<<"io::output", "ChannelYellowPedClearDriver", 3>>, 38),
    FrameBit(<<"io::output", "ChannelYellowPedClearDriver", 3>>, 39),
    FrameBit(<<"io::output", "ChannelGreenWalkDriver", 3>>, 40),
    FrameBit(<<"io::output", "ChannelGreenWalkDriver", 3>>, 41),
    FrameBit(<<"io::output", "ChannelRedDoNotWalkDriver", 4>>, 42),
    FrameBit(<<"io::output", "ChannelRedDoNotWalkDriver", 4>>, 43),
    FrameBit(<<"io::output", "ChannelYellowPedClearDriver", 4>>, 44),
    FrameBit(<<"io::output", "ChannelYellowPedClearDriver", 4>>, 45),
    FrameBit(<<"io::output", "ChannelGreenWalkDriver", 4>>, 46),
    FrameBit(<<"io::output", "ChannelGreenWalkDriver", 4>>, 47),
    FrameBit(<<"io::output", "ChannelRedDoNotWalkDriver", 5>>, 48),
    FrameBit(<<"io::output", "ChannelRedDoNotWalkDriver", 5>>, 49),
    FrameBit(<<"io::output", "ChannelYellowPedClearDriver", 5>>, 50),
    FrameBit(<<"io::output", "ChannelYellowPedClearDriver", 5>>, 51),
    FrameBit(<<"io::output", "ChannelGreenWalkDriver", 5>>, 52),
    FrameBit(<<"io::output", "ChannelGreenWalkDriver", 5>>, 53),
    FrameBit(<<"io::output", "ChannelRedDoNotWalkDriver", 6>>, 54),
    FrameBit(<<"io::output", "ChannelRedDoNotWalkDriver", 6>>, 55),
    FrameBit(<<"io::output", "ChannelYellowPedClearDriver", 6>>, 56),
    FrameBit(<<"io::output", "ChannelYellowPedClearDriver", 6>>, 57),
    FrameBit(<<"io::output", "ChannelGreenWalkDriver", 6>>, 58),
    FrameBit(<<"io::output", "ChannelGreenWalkDriver", 6>>, 59),
    FrameBit(<<"io::output", "ChannelRedDoNotWalkDriver", 7>>, 60),
    FrameBit(<<"io::output", "ChannelRedDoNotWalkDriver", 7>>, 61),
    FrameBit(<<"io::output", "ChannelYellowPedClearDriver", 7>>, 62),
    FrameBit(<<"io::output", "ChannelYellowPedClearDriver", 7>>, 63),
    FrameBit(<<"io::output", "ChannelGreenWalkDriver", 7>>, 64),
    FrameBit(<<"io::output", "ChannelGreenWalkDriver", 7>>, 65),
    FrameBit(<<"io::output", "ChannelRedDoNotWalkDriver", 8>>, 66),
    FrameBit(<<"io::output", "ChannelRedDoNotWalkDriver", 8>>, 67),
    FrameBit(<<"io::output", "ChannelYellowPedClearDriver", 8>>, 68),
    FrameBit(<<"io::output", "ChannelYellowPedClearDriver", 8>>, 69),
    FrameBit(<<"io::output", "ChannelGreenWalkDriver", 8>>, 70),
    FrameBit(<<"io::output", "ChannelGreenWalkDriver", 8>>, 71),
    FrameBit(<<"io::output", "UnitTBCAux_1", 0>>, 72),
    FrameBit(<<"io::output", "UnitTBCAux_2", 0>>, 73),
    FrameBit(<<"io::output", "PreemptStatus", 1>>, 74),
    FrameBit(<<"io::output", "PreemptStatus", 2>>, 75)
  >>)

\* TfBiu02_OutputsInputsRequestFrame: address 1, frame id 11, 11 bytes (vtc.hpp:2412-2500).
TfBiu02_OutputsInputsRequestFrame ==
  Frame(1, 11, 11, "SSR_CommandFrameType", <<
    FrameBit(<<"io::output", "ChannelRedDoNotWalkDriver", 9>>, 24),
    FrameBit(<<"io::output", "ChannelRedDoNotWalkDriver", 9>>, 25),
    FrameBit(<<"io::output", "ChannelYellowPedClearDriver", 9>>, 26),
    FrameBit(<<"io::output", "ChannelYellowPedClearDriver", 9>>, 27),
    FrameBit(<<"io::output", "ChannelGreenWalkDriver", 9>>, 28),
    FrameBit(<<"io::output", "ChannelGreenWalkDriver", 9>>, 29),
    FrameBit(<<"io::output", "ChannelRedDoNotWalkDriver", 10>>, 30),
    FrameBit(<<"io::output", "ChannelRedDoNotWalkDriver", 10>>, 31),
    FrameBit(<<"io::output", "ChannelYellowPedClearDriver", 10>>, 32),
    FrameBit(<<"io::output", "ChannelYellowPedClearDriver", 10>>, 33),
    FrameBit(<<"io::output", "ChannelGreenWalkDriver", 10>>, 34),
    FrameBit(<<"io::output", "ChannelGreenWalkDriver", 10>>, 35),
    FrameBit(<<"io::output", "ChannelRedDoNotWalkDriver", 11>>, 36),
    FrameBit(<<"io::output", "ChannelRedDoNotWalkDriver", 11>>, 37),
    FrameBit(<<"io::output", "ChannelYellowPedClearDriver", 11>>, 38),
    FrameBit(<<"io::output", "ChannelYellowPedClearDriver", 11>>, 39),
    FrameBit(<<"io::output", "ChannelGreenWalkDriver", 11>>, 40),
    FrameBit(<<"io::output", "ChannelGreenWalkDriver", 11>>, 41),
    FrameBit(<<"io::output", "ChannelRedDoNotWalkDriver", 12>>, 42),
    FrameBit(<<"io::output", "ChannelRedDoNotWalkDriver", 12>>, 43),
    FrameBit(<<"io::output", "ChannelYellowPedClearDriver", 12>>, 44),
    FrameBit(<<"io::output", "ChannelYellowPedClearDriver", 12>>, 45),
    FrameBit(<<"io::output", "ChannelGreenWalkDriver", 12>>, 46),
    FrameBit(<<"io::output", "ChannelGreenWalkDriver", 12>>, 47),
    FrameBit(<<"io::output", "ChannelRedDoNotWalkDriver", 13>>, 48),
    FrameBit(<<"io::output", "ChannelRedDoNotWalkDriver", 13>>, 49),
    FrameBit(<<"io::output", "ChannelYellowPedClearDriver", 13>>, 50),
    FrameBit(<<"io::output", "ChannelYellowPedClearDriver", 13>>, 51),
    FrameBit(<<"io::output", "ChannelGreenWalkDriver", 13>>, 52),
    FrameBit(<<"io::output", "ChannelGreenWalkDriver", 13>>, 53),
    FrameBit(<<"io::output", "ChannelRedDoNotWalkDriver", 14>>, 54),
    FrameBit(<<"io::output", "ChannelRedDoNotWalkDriver", 14>>, 55),
    FrameBit(<<"io::output", "ChannelYellowPedClearDriver", 14>>, 56),
    FrameBit(<<"io::output", "ChannelYellowPedClearDriver", 14>>, 57),
    FrameBit(<<"io::output", "ChannelGreenWalkDriver", 14>>, 58),
    FrameBit(<<"io::output", "ChannelGreenWalkDriver", 14>>, 59),
    FrameBit(<<"io::output", "ChannelRedDoNotWalkDriver", 15>>, 60),
    FrameBit(<<"io::output", "ChannelRedDoNotWalkDriver", 15>>, 61),
    FrameBit(<<"io::output", "ChannelYellowPedClearDriver", 15>>, 62),
    FrameBit(<<"io::output", "ChannelYellowPedClearDriver", 15>>, 63),
    FrameBit(<<"io::output", "ChannelGreenWalkDriver", 15>>, 64),
    FrameBit(<<"io::output", "ChannelGreenWalkDriver", 15>>, 65),
    FrameBit(<<"io::output", "ChannelRedDoNotWalkDriver", 16>>, 66),
    FrameBit(<<"io::output", "ChannelRedDoNotWalkDriver", 16>>, 67),
    FrameBit(<<"io::output", "ChannelYellowPedClearDriver", 16>>, 68),
    FrameBit(<<"io::output", "ChannelYellowPedClearDriver", 16>>, 69),
    FrameBit(<<"io::output", "ChannelGreenWalkDriver", 16>>, 70),
    FrameBit(<<"io::output", "ChannelGreenWalkDriver", 16>>, 71),
    FrameBit(<<"io::output", "UnitTBCAux_3", 0>>, 72),
    FrameBit(<<"io::output", "UnitFreeCoordStatus", 0>>, 73),
    FrameBit(<<"io::output", "PreemptStatus", 3>>, 74),
    FrameBit(<<"io::output", "PreemptStatus", 4>>, 75),
    FrameBit(<<"io::output", "PreemptStatus", 5>>, 76),
    FrameBit(<<"io::output", "PreemptStatus", 6>>, 77)
  >>)

\* TfBiu03_OutputsInputsRequestFrame: address 2, frame id 12, 8 bytes (vtc.hpp:2511-2572).
TfBiu03_OutputsInputsRequestFrame ==
  Frame(2, 12, 8, "SSR_CommandFrameType", <<
    FrameBit(<<"io::output", "UnitTimingPlanA", 0>>, 24),
    FrameBit(<<"io::output", "UnitTimingPlanB", 0>>, 25),
    FrameBit(<<"io::output", "UnitTimingPlanC", 0>>, 26),
    FrameBit(<<"io::output", "UnitTimingPlanD", 0>>, 27),
    FrameBit(<<"io::output", "UnitOffset_1", 0>>, 28),
    FrameBit(<<"io::output", "UnitOffset_2", 0>>, 29),
    FrameBit(<<"io::output", "UnitOffset_3", 0>>, 30),
    FrameBit(<<"io::output", "UnitAutomaticFlash", 0>>, 31),
    FrameBit(<<"io::output", "SpecialFunction", 1>>, 32),
    FrameBit(<<"io::output", "SpecialFunction", 2>>, 33),
    FrameBit(<<"io::output", "SpecialFunction", 3>>, 34),
    FrameBit(<<"io::output", "SpecialFunction", 4>>, 35),
    FrameBit(<<"io::output", "StatusBitA_Ring_1", 0>>, 40),
    FrameBit(<<"io::output", "StatusBitB_Ring_1", 0>>, 41),
    FrameBit(<<"io::output", "StatusBitC_Ring_1", 0>>, 42),
    FrameBit(<<"io::output", "StatusBitA_Ring_2", 0>>, 43),
    FrameBit(<<"io::output", "StatusBitB_Ring_2", 0>>, 44),
    FrameBit(<<"io::output", "StatusBitC_Ring_2", 0>>, 45)
  >>)

\* TfBiu04_OutputsInputsRequestFrame: address 3, frame id 13, 8 bytes (vtc.hpp:2583-2644).
TfBiu04_OutputsInputsRequestFrame ==
  Frame(3, 13, 8, "SSR_CommandFrameType", <<
    FrameBit(<<"io::output", "PhaseOn", 1>>, 24),
    FrameBit(<<"io::output", "PhaseOn", 2>>, 25),
    FrameBit(<<"io::output", "PhaseOn", 3>>, 26),
    FrameBit(<<"io::output", "PhaseOn", 4>>, 27),
    FrameBit(<<"io::output", "PhaseOn", 5>>, 28),
    FrameBit(<<"io::output", "PhaseOn", 6>>, 29),
    FrameBit(<<"io::output", "PhaseOn", 7>>, 30),
    FrameBit(<<"io::output", "PhaseOn", 8>>, 31),
    FrameBit(<<"io::output", "PhaseNext", 1>>, 32),
    FrameBit(<<"io::output", "PhaseNext", 2>>, 33),
    FrameBit(<<"io::output", "PhaseNext", 3>>, 34),
    FrameBit(<<"io::output", "PhaseNext", 4>>, 35),
    FrameBit(<<"io::output", "PhaseNext", 5>>, 36),
    FrameBit(<<"io::output", "PhaseNext", 6>>, 37),
    FrameBit(<<"io::output", "PhaseNext", 7>>, 38),
    FrameBit(<<"io::output", "PhaseNext", 8>>, 40),
    FrameBit(<<"io::output", "PhaseCheck", 1>>, 41),
    FrameBit(<<"io::output", "PhaseCheck", 2>>, 42),
    FrameBit(<<"io::output", "PhaseCheck", 3>>, 43),
    FrameBit(<<"io::output", "PhaseCheck", 4>>, 44),
    FrameBit(<<"io::output", "PhaseCheck", 5>>, 45),
    FrameBit(<<"io::output", "PhaseCheck", 6>>, 46),
    FrameBit(<<"io::output", "PhaseCheck", 7>>, 47),
    FrameBit(<<"io::output", "PhaseCheck", 8>>, 48)
  >>)

\* OutputTransferFrame: address 255, frame id 18, 3 bytes (vtc.hpp:2655-2661).
OutputTransferFrame ==
  Frame(255, 18, 3, "SSR_CommandFrameType", <<>>)

\* DrBiu01_CallRequestFrame: address 8, frame id 20, 3 bytes (vtc.hpp:2672-2678).
DrBiu01_CallRequestFrame ==
  Frame(8, 20, 3, "SSR_CommandFrameType", <<>>)

\* DrBiu02_CallRequestFrame: address 9, frame id 21, 3 bytes (vtc.hpp:2689-2695).
DrBiu02_CallRequestFrame ==
  Frame(9, 21, 3, "SSR_CommandFrameType", <<>>)

\* DrBiu03_CallRequestFrame: address 10, frame id 22, 3 bytes (vtc.hpp:2706-2712).
DrBiu03_CallRequestFrame ==
  Frame(10, 22, 3, "SSR_CommandFrameType", <<>>)

\* DrBiu04_CallRequestFrame: address 11, frame id 23, 3 bytes (vtc.hpp:2723-2729).
DrBiu04_CallRequestFrame ==
  Frame(11, 23, 3, "SSR_CommandFrameType", <<>>)

\* DrBiu01_ResetDiagnosticRequestFrame: address 8, frame id 24, 4 bytes (vtc.hpp:2740-2747).
DrBiu01_ResetDiagnosticRequestFrame ==
  Frame(8, 24, 4, "SSR_CommandFrameType", <<
    FrameByte(<<"io::output", "DetectorReset", 1>>, 3)
  >>)

\* DrBiu02_ResetDiagnosticRequestFrame: address 9, frame id 25, 4 bytes (vtc.hpp:2758-2765).
DrBiu02_ResetDiagnosticRequestFrame ==
  Frame(9, 25, 4, "SSR_CommandFrameType", <<
    FrameByte(<<"io::output", "DetectorReset", 2>>, 3)
  >>)

\* DrBiu03_ResetDiagnosticRequestFrame: address 10, frame id 26, 4 bytes (vtc.hpp:2776-2783).
DrBiu03_ResetDiagnosticRequestFrame ==
  Frame(10, 26, 4, "SSR_CommandFrameType", <<
    FrameByte(<<"io::output", "DetectorReset", 3>>, 3)
  >>)

\* DrBiu04_ResetDiagnosticRequestFrame: address 11, frame id 27, 4 bytes (vtc.hpp:2794-2801).
DrBiu04_ResetDiagnosticRequestFrame ==
  Frame(11, 27, 4, "SSR_CommandFrameType", <<
    FrameByte(<<"io::output", "DetectorReset", 4>>, 3)
  >>)

\* LoadSwitchDriversAckFrame: address 16, frame id 128, 3 bytes (vtc.hpp:2816-2822).
LoadSwitchDriversAckFrame ==
  Frame(16, 128, 3, "SSG_ResponseFrameType", <<>>)

\* MMUInputStatusRequestAckFrame: address 16, frame id 129, 13 bytes (vtc.hpp:2833-2953).
MMUInputStatusRequestAckFrame ==
  Frame(16, 129, 13, "SSG_ResponseFrameType", <<
    FrameBit(<<"mmu", "ChannelGreenWalkStatus", 1>>, 24),
    FrameBit(<<"mmu", "ChannelGreenWalkStatus", 2>>, 25),
    FrameBit(<<"mmu", "ChannelGreenWalkStatus", 3>>, 26),
    FrameBit(<<"mmu", "ChannelGreenWalkStatus", 4>>, 27),
    FrameBit(<<"mmu", "ChannelGreenWalkStatus", 5>>, 28),
    FrameBit(<<"mmu", "ChannelGreenWalkStatus", 6>>, 29),
    FrameBit(<<"mmu", "ChannelGreenWalkStatus", 7>>, 30),
    FrameBit(<<"mmu", "ChannelGreenWalkStatus", 8>>, 31),
    FrameBit(<<"mmu", "ChannelGreenWalkStatus", 9>>, 32),
    FrameBit(<<"mmu", "ChannelGreenWalkStatus", 10>>, 33),
    FrameBit(<<"mmu", "ChannelGreenWalkStatus", 11>>, 34),
    FrameBit(<<"mmu", "ChannelGreenWalkStatus", 12>>, 35),
    FrameBit(<<"mmu", "ChannelGreenWalkStatus", 13>>, 36),
    FrameBit(<<"mmu", "ChannelGreenWalkStatus", 14>>, 37),
    FrameBit(<<"mmu", "ChannelGreenWalkStatus", 14>>, 38),
    FrameBit(<<"mmu", "ChannelGreenWalkStatus", 16>>, 39),
    FrameBit(<<"mmu", "ChannelYellowPedClearStatus", 1>>, 40),
    FrameBit(<<"mmu", "ChannelYellowPedClearStatus", 2>>, 41),
    FrameBit(<<"mmu", "ChannelYellowPedClearStatus", 3>>, 42),
    FrameBit(<<"mmu", "ChannelYellowPedClearStatus", 4>>, 43),
    FrameBit(<<"mmu", "ChannelYellowPedClearStatus", 5>>, 44),
    FrameBit(<<"mmu", "ChannelYellowPedClearStatus", 6>>, 45),
    FrameBit(<<"mmu", "ChannelYellowPedClearStatus", 7>>, 46),
    FrameBit(<<"mmu", "ChannelYellowPedClearStatus", 8>>, 47),
    FrameBit(<<"mmu", "ChannelYellowPedClearStatus", 9>>, 48),
    FrameBit(<<"mmu", "ChannelYellowPedClearStatus", 10>>, 49),
    FrameBit(<<"mmu", "ChannelYellowPedClearStatus", 11>>, 50),
    FrameBit(<<"mmu", "ChannelYellowPedClearStatus", 12>>, 51),
    FrameBit(<<"mmu", "ChannelYellowPedClearStatus", 13>>, 52),
    FrameBit(<<"mmu", "ChannelYellowPedClearStatus", 14>>, 53),
    FrameBit(<<"mmu", "ChannelYellowPedClearStatus", 15>>, 54),
    FrameBit(<<"mmu", "ChannelYellowPedClearStatus", 16>>, 55),
    FrameBit(<<"mmu", "ChannelRedDoNotWalkStatus", 1>>, 56),
    FrameBit(<<"mmu", "ChannelRedDoNotWalkStatus", 2>>, 57),
    FrameBit(<<"mmu", "ChannelRedDoNotWalkStatus", 3>>, 58),
    FrameBit(<<"mmu", "ChannelRedDoNotWalkStatus", 4>>, 59),
    FrameBit(<<"mmu", "ChannelRedDoNotWalkStatus", 5>>, 60),
    FrameBit(<<"mmu", "ChannelRedDoNotWalkStatus", 6>>, 61),
    FrameBit(<<"mmu", "ChannelRedDoNotWalkStatus", 7>>, 62),
    FrameBit(<<"mmu", "ChannelRedDoNotWalkStatus", 8>>, 63),
    FrameBit(<<"mmu", "ChannelRedDoNotWalkStatus", 9>>, 64),
    FrameBit(<<"mmu", "ChannelRedDoNotWalkStatus", 10>>, 65),
    FrameBit(<<"mmu", "ChannelRedDoNotWalkStatus", 11>>, 66),
    FrameBit(<<"mmu", "ChannelRedDoNotWalkStatus", 12>>, 67),
    FrameBit(<<"mmu", "ChannelRedDoNotWalkStatus", 13>>, 68),
    FrameBit(<<"mmu", "ChannelRedDoNotWalkStatus", 14>>, 69),
    FrameBit(<<"mmu", "ChannelRedDoNotWalkStatus", 15>>, 70),
    FrameBit(<<"mmu", "ChannelRedDoNotWalkStatus", 16>>, 71),
    FrameBit(<<"mmu", "ControllerVoltMonitor", 0>>, 72),
    FrameBit(<<"mmu", "_24VoltMonitor_I", 0>>, 73),
    FrameBit(<<"mmu", "_24VoltMonitor_II", 0>>, 74),
    FrameBit(<<"mmu", "_24VoltMonitorInhibit", 0>>, 75),
    FrameBit(<<"mmu", "Reset", 0>>, 76),
    FrameBit(<<"mmu", "RedEnable", 0>>, 77),
    FrameBit(<<"mmu", "Conflict", 0>>, 80),
    FrameBit(<<"mmu", "RedFailure", 0>>, 81),
    FrameBit(<<"mmu", "DiagnosticFailure", 0>>, 88),
    FrameBit(<<"mmu", "MinimumClearanceFailure", 0>>, 89),
    FrameBit(<<"mmu", "Port1TimeoutFailure", 0>>, 90),
    FrameBit(<<"mmu", "FailedAndOutputRelayTransferred", 0>>, 91),
    FrameBit(<<"mmu", "FailedAndImmediateResponse", 0>>, 92),
    FrameBit(<<"mmu", "LocalFlashStatus", 0>>, 94),
    FrameBit(<<"mmu", "StartupFlashCall", 0>>, 95),
    FrameBit(<<"mmu", "FYAFlashRateFailure", 0>>, 96)
  >>)

\* MMUProgrammingRequestAckFrame: address 16, frame id 131, 23 bytes (vtc.hpp:2964-3178).
MMUProgrammingRequestAckFrame ==
  Frame(16, 131, 23, "SSG_ResponseFrameType", <<
    FrameBit(<<"mmu", "ChannelCompatibilityStatus", 258>>, 24),
    FrameBit(<<"mmu", "ChannelCompatibilityStatus", 259>>, 25),
    FrameBit(<<"mmu", "ChannelCompatibilityStatus", 260>>, 26),
    FrameBit(<<"mmu", "ChannelCompatibilityStatus", 261>>, 27),
    FrameBit(<<"mmu", "ChannelCompatibilityStatus", 262>>, 28),
    FrameBit(<<"mmu", "ChannelCompatibilityStatus", 263>>, 29),
    FrameBit(<<"mmu", "ChannelCompatibilityStatus", 264>>, 30),
    FrameBit(<<"mmu", "ChannelCompatibilityStatus", 265>>, 31),
    FrameBit(<<"mmu", "ChannelCompatibilityStatus", 266>>, 32),
    FrameBit(<<"mmu", "ChannelCompatibilityStatus", 267>>, 33),
    FrameBit(<<"mmu", "ChannelCompatibilityStatus", 268>>, 34),
    FrameBit(<<"mmu", "ChannelCompatibilityStatus", 269>>, 35),
    FrameBit(<<"mmu", "ChannelCompatibilityStatus", 270>>, 36),
    FrameBit(<<"mmu", "ChannelCompatibilityStatus", 271>>, 37),
    FrameBit(<<"mmu", "ChannelCompatibilityStatus", 272>>, 38),
    FrameBit(<<"mmu", "ChannelCompatibilityStatus", 515>>, 39),
    FrameBit(<<"mmu", "ChannelCompatibilityStatus", 516>>, 40),
    FrameBit(<<"mmu", "ChannelCompatibilityStatus", 517>>, 41),
    FrameBit(<<"mmu", "ChannelCompatibilityStatus", 518>>, 42),
    FrameBit(<<"mmu", "ChannelCompatibilityStatus", 519>>, 43),
    FrameBit(<<"mmu", "ChannelCompatibilityStatus", 520>>, 44),
    FrameBit(<<"mmu", "ChannelCompatibilityStatus", 521>>, 45),
    FrameBit(<<"mmu", "ChannelCompatibilityStatus", 522>>, 46),
    FrameBit(<<"mmu", "ChannelCompatibilityStatus", 523>>, 47),
    FrameBit(<<"mmu", "ChannelCompatibilityStatus", 524>>, 48),
    FrameBit(<<"mmu", "ChannelCompatibilityStatus", 525>>, 49),
    FrameBit(<<"mmu", "ChannelCompatibilityStatus", 526>>, 50),
    FrameBit(<<"mmu", "ChannelCompatibilityStatus", 527>>, 51),
    FrameBit(<<"mmu", "ChannelCompatibilityStatus", 528>>, 52),
    FrameBit(<<"mmu", "ChannelCompatibilityStatus", 772>>, 53),
    FrameBit(<<"mmu", "ChannelCompatibilityStatus", 773>>, 54),
    FrameBit(<<"mmu", "ChannelCompatibilityStatus", 774>>, 55),
    FrameBit(<<"mmu", "ChannelCompatibilityStatus", 775>>, 56),
    FrameBit(<<"mmu", "ChannelCompatibilityStatus", 776>>, 57),
    FrameBit(<<"mmu", "ChannelCompatibilityStatus", 777>>, 58),
    FrameBit(<<"mmu", "ChannelCompatibilityStatus", 778>>, 59),
    FrameBit(<<"mmu", "ChannelCompatibilityStatus", 779>>, 60),
    FrameBit(<<"mmu", "ChannelCompatibilityStatus", 780>>, 61),
    FrameBit(<<"mmu", "ChannelCompatibilityStatus", 781>>, 62),
    FrameBit(<<"mmu", "ChannelCompatibilityStatus", 782>>, 63),
    FrameBit(<<"mmu", "ChannelCompatibilityStatus", 783>>, 64),
    FrameBit(<<"mmu", "ChannelCompatibilityStatus", 784>>, 65),
    FrameBit(<<"mmu", "ChannelCompatibilityStatus", 1029>>, 66),
    FrameBit(<<"mmu", "ChannelCompatibilityStatus", 1030>>, 67),
    FrameBit(<<"mmu", "ChannelCompatibilityStatus", 1031>>, 68),
    FrameBit(<<"mmu", "ChannelCompatibilityStatus", 1032>>, 69),
    FrameBit(<<"mmu", "ChannelCompatibilityStatus", 1033>>, 70),
    FrameBit(<<"mmu", "ChannelCompatibilityStatus", 1034>>, 71),
    FrameBit(<<"mmu", "ChannelCompatibilityStatus", 1035>>, 72),
    FrameBit(<<"mmu", "ChannelCompatibilityStatus", 1036>>, 73),
    FrameBit(<<"mmu", "ChannelCompatibilityStatus", 1037>>, 74),
    FrameBit(<<"mmu", "ChannelCompatibilityStatus", 1038>>, 75),
    FrameBit(<<"mmu", "ChannelCompatibilityStatus", 1039>>, 76),
    FrameBit(<<"mmu", "ChannelCompatibilityStatus", 1040>>, 77),
    FrameBit(<<"mmu", "ChannelCompatibilityStatus", 1286>>, 78),
    FrameBit(<<"mmu", "ChannelCompatibilityStatus", 1287>>, 79),
    FrameBit(<<"mmu", "ChannelCompatibilityStatus", 1288>>, 80),
    FrameBit(<<"mmu", "ChannelCompatibilityStatus", 1289>>, 81),
    FrameBit(<<"mmu", "ChannelCompatibilityStatus", 1290>>, 82),
    FrameBit(<<"mmu", "ChannelCompatibilityStatus", 1291>>, 83),
    FrameBit(<<"mmu", "ChannelCompatibilityStatus", 1292>>, 84),
    FrameBit(<<"mmu", "ChannelCompatibilityStatus", 1293>>, 85),
    FrameBit(<<"mmu", "ChannelCompatibilityStatus", 1294>>, 86),
    FrameBit(<<"mmu", "ChannelCompatibilityStatus", 1295>>, 87),
    FrameBit(<<"mmu", "ChannelCompatibilityStatus", 1296>>, 88),
    FrameBit(<<"mmu", "ChannelCompatibilityStatus", 1543>>, 89),
    FrameBit(<<"mmu", "ChannelCompatibilityStatus", 1544>>, 90),
    FrameBit(<<"mmu", "ChannelCompatibilityStatus", 1545>>, 91),
    FrameBit(<<"mmu", "ChannelCompatibilityStatus", 1546>>, 92),
    FrameBit(<<"mmu", "ChannelCompatibilityStatus", 1547>>, 93),
    FrameBit(<<"mmu", "ChannelCompatibilityStatus", 1548>>, 94),
    FrameBit(<<"mmu", "ChannelCompatibilityStatus", 1549>>, 95),
    FrameBit(<<"mmu", "ChannelCompatibilityStatus", 1550>>, 96),
    FrameBit(<<"mmu", "ChannelCompatibilityStatus", 1551>>, 97),
    FrameBit(<<"mmu", "ChannelCompatibilityStatus", 1552>>, 98),
    FrameBit(<<"mmu", "ChannelCompatibilityStatus", 1800>>, 99),
    FrameBit(<<"mmu", "ChannelCompatibilityStatus", 1801>>, 100),
    FrameBit(<<"mmu", "ChannelCompatibilityStatus", 1802>>, 101),
    FrameBit(<<"mmu", "ChannelCompatibilityStatus", 1803>>, 102),
    FrameBit(<<"mmu", "ChannelCompatibilityStatus", 1804>>, 103),
    FrameBit(<<"mmu", "ChannelCompatibilityStatus", 1805>>, 104),
    FrameBit(<<"mmu", "ChannelCompatibilityStatus", 1806>>, 105),
    FrameBit(<<"mmu", "ChannelCompatibilityStatus", 1807>>, 106),
    FrameBit(<<"mmu", "ChannelCompatibilityStatus", 1808>>, 107),
    FrameBit(<<"mmu", "ChannelCompatibilityStatus", 2057>>, 108),
    FrameBit(<<"mmu", "ChannelCompatibilityStatus", 2058>>, 109),
    FrameBit(<<"mmu", "ChannelCompatibilityStatus", 2059>>, 110),
    FrameBit(<<"mmu", "ChannelCompatibilityStatus", 2060>>, 111),
    FrameBit(<<"mmu", "ChannelCompatibilityStatus", 2061>>, 112),
    FrameBit(<<"mmu", "ChannelCompatibilityStatus", 2062>>, 113),
    FrameBit(<<"mmu", "ChannelCompatibilityStatus", 2063>>, 114),
    FrameBit(<<"mmu", "ChannelCompatibilityStatus", 2064>>, 115),
    FrameBit(<<"mmu", "ChannelCompatibilityStatus", 2314>>, 116),
    FrameBit(<<"mmu", "ChannelCompatibilityStatus", 2315>>, 117),
    FrameBit(<<"mmu", "ChannelCompatibilityStatus", 2316>>, 118),
    FrameBit(<<"mmu", "ChannelCompatibilityStatus", 2317>>, 119),
    FrameBit(<<"mmu", "ChannelCompatibilityStatus", 2318>>, 120),
    FrameBit(<<"mmu", "ChannelCompatibilityStatus", 2319>>, 121),
    FrameBit(<<"mmu", "ChannelCompatibilityStatus", 2320>>, 122),
    FrameBit(<<"mmu", "ChannelCompatibilityStatus", 2571>>, 123),
    FrameBit(<<"mmu", "ChannelCompatibilityStatus", 2572>>, 124),
    FrameBit(<<"mmu", "ChannelCompatibilityStatus", 2573>>, 125),
    FrameBit(<<"mmu", "ChannelCompatibilityStatus", 2574>>, 126),
    FrameBit(<<"mmu", "ChannelCompatibilityStatus", 2575>>, 127),
    FrameBit(<<"mmu", "ChannelCompatibilityStatus", 2576>>, 128),
    FrameBit(<<"mmu", "ChannelCompatibilityStatus", 2828>>, 129),
    FrameBit(<<"mmu", "ChannelCompatibilityStatus", 2829>>, 130),
    FrameBit(<<"mmu", "ChannelCompatibilityStatus", 2830>>, 131),
    FrameBit(<<"mmu", "ChannelCompatibilityStatus", 2831>>, 132),
    FrameBit(<<"mmu", "ChannelCompatibilityStatus", 2832>>, 133),
    FrameBit(<<"mmu", "ChannelCompatibilityStatus", 3085>>, 134),
    FrameBit(<<"mmu", "ChannelCompatibilityStatus", 3086>>, 135),
    FrameBit(<<"mmu", "ChannelCompatibilityStatus", 3087>>, 136),
    FrameBit(<<"mmu", "ChannelCompatibilityStatus", 3088>>, 137),
    FrameBit(<<"mmu", "ChannelCompatibilityStatus", 3342>>, 138),
    FrameBit(<<"mmu", "ChannelCompatibilityStatus", 3343>>, 139),
    FrameBit(<<"mmu", "ChannelCompatibilityStatus", 3344>>, 140),
    FrameBit(<<"mmu", "ChannelCompatibilityStatus", 3599>>, 141),
    FrameBit(<<"mmu", "ChannelCompatibilityStatus", 3600>>, 142),
    FrameBit(<<"mmu", "ChannelCompatibilityStatus", 3856>>, 143),
    FrameBit(<<"mmu", "MinimumYellowChangeDisable", 1>>, 144),
    FrameBit(<<"mmu", "MinimumYellowChangeDisable", 2>>, 145),
    FrameBit(<<"mmu", "MinimumYellowChangeDisable", 3>>, 146),
    FrameBit(<<"mmu", "MinimumYellowChangeDisable", 4>>, 147),
    FrameBit(<<"mmu", "MinimumYellowChangeDisable", 5>>, 148),
    FrameBit(<<"mmu", "MinimumYellowChangeDisable", 6>>, 149),
    FrameBit(<<"mmu", "MinimumYellowChangeDisable", 7>>, 150),
    FrameBit(<<"mmu", "MinimumYellowChangeDisable", 8>>, 151),
    FrameBit(<<"mmu", "MinimumYellowChangeDisable", 9>>, 152),
    FrameBit(<<"mmu", "MinimumYellowChangeDisable", 10>>, 153),
    FrameBit(<<"mmu", "MinimumYellowChangeDisable", 11>>, 154),
    FrameBit(<<"mmu", "MinimumYellowChangeDisable", 12>>, 155),
    FrameBit(<<"mmu", "MinimumYellowChangeDisable", 13>>, 156),
    FrameBit(<<"mmu", "MinimumYellowChangeDisable", 14>>, 157),
    FrameBit(<<"mmu", "MinimumYellowChangeDisable", 15>>, 158),
    FrameBit(<<"mmu", "MinimumYellowChangeDisable", 16>>, 159),
    FrameBit(<<"mmu", "MinimumFlashTimeBit_0", 0>>, 160),
    FrameBit(<<"mmu", "MinimumFlashTimeBit_1", 0>>, 161),
    FrameBit(<<"mmu", "MinimumFlashTimeBit_2", 0>>, 162),
    FrameBit(<<"mmu", "MinimumFlashTimeBit_3", 0>>, 163),
    FrameBit(<<"mmu", "_24VoltLatch", 0>>, 164),
    FrameBit(<<"mmu", "CVMFaultMonitorLatch", 0>>, 165)
  >>)

\* TfBiu01_InputFrame: address 0, frame id 138, 8 bytes (vtc.hpp:3189-3254).
TfBiu01_InputFrame ==
  Frame(0, 138, 8, "SSG_ResponseFrameType", <<
    FrameBit(<<"io::input", "PreemptInput", 1>>, 37),
    FrameBit(<<"io::input", "PreemptInput", 2>>, 38),
    FrameBit(<<"io::input", "UnitTestInputA", 0>>, 39),
    FrameBit(<<"io::input", "UnitTestInputB", 0>>, 40),
    FrameBit(<<"io::input", "UnitAutomaticFlash", 0>>, 41),
    FrameBit(<<"io::input", "UnitDimming", 0>>, 42),
    FrameBit(<<"io::input", "UnitManualControlEnable", 0>>, 43),
    FrameBit(<<"io::input", "UnitIntervalAdvance", 0>>, 44),
    FrameBit(<<"io::input", "UnitExternalMinRecall", 0>>, 45),
    FrameBit(<<"io::input", "UnitExternalStart", 0>>, 46),
    FrameBit(<<"io::input", "UnitTBCOnline", 0>>, 47),
    FrameBit(<<"io::input", "RingStopTiming", 1>>, 48),
    FrameBit(<<"io::input", "RingStopTiming", 2>>, 49),
    FrameBit(<<"io::input", "RingMax2Selection", 1>>, 50),
    FrameBit(<<"io::input", "RingMax2Selection", 2>>, 51),
    FrameBit(<<"io::input", "RingForceOff", 1>>, 52),
    FrameBit(<<"io::input", "RingForceOff", 2>>, 53),
    FrameBit(<<"io::input", "UnitCallToNonActuated_1", 0>>, 54),
    FrameBit(<<"io::input", "UnitWalkRestModifier", 0>>, 55),
    FrameBit(<<"io::input", "PedDetCall", 1>>, 56),
    FrameBit(<<"io::input", "PedDetCall", 2>>, 57),
    FrameBit(<<"io::input", "PedDetCall", 3>>, 58),
    FrameBit(<<"io::input", "PedDetCall", 4>>, 59)
  >>)

\* TfBiu02_InputFrame: address 1, frame id 139, 8 bytes (vtc.hpp:3265-3330).
TfBiu02_InputFrame ==
  Frame(1, 139, 8, "SSG_ResponseFrameType", <<
    FrameBit(<<"io::input", "PreemptInput", 3>>, 39),
    FrameBit(<<"io::input", "PreemptInput", 4>>, 40),
    FrameBit(<<"io::input", "PreemptInput", 5>>, 41),
    FrameBit(<<"io::input", "PreemptInput", 6>>, 42),
    FrameBit(<<"io::input", "UnitCallToNonActuated_2", 0>>, 43),
    FrameBit(<<"io::input", "RingInhibitMaxTermination", 1>>, 48),
    FrameBit(<<"io::input", "RingInhibitMaxTermination", 2>>, 49),
    FrameBit(<<"io::input", "UnitLocalFlash", 0>>, 50),
    FrameBit(<<"io::input", "UnitCMUMMUFlashStatus", 0>>, 51),
    FrameBit(<<"io::input", "UnitAlarm_1", 0>>, 52),
    FrameBit(<<"io::input", "UnitAlarm_2", 0>>, 53),
    FrameBit(<<"io::input", "CoordFreeSwitch", 0>>, 54),
    FrameBit(<<"io::input", "UnitTestInputC", 0>>, 55),
    FrameBit(<<"io::input", "PedDetCall", 5>>, 56),
    FrameBit(<<"io::input", "PedDetCall", 6>>, 57),
    FrameBit(<<"io::input", "PedDetCall", 7>>, 58),
    FrameBit(<<"io::input", "PedDetCall", 8>>, 59)
  >>)

\* TfBiu03_InputFrame: address 2, frame id 140, 8 bytes (vtc.hpp:3341-3406).
TfBiu03_InputFrame ==
  Frame(2, 140, 8, "SSG_ResponseFrameType", <<
    FrameBit(<<"io::input", "RingRedRest", 1>>, 30),
    FrameBit(<<"io::input", "RingRedRest", 2>>, 30),
    FrameBit(<<"io::input", "RingOmitRedClearance", 1>>, 32),
    FrameBit(<<"io::input", "RingOmitRedClearance", 2>>, 33),
    FrameBit(<<"io::input", "RingPedestrianRecycle", 1>>, 34),
    FrameBit(<<"io::input", "RingPedestrianRecycle", 2>>, 35),
    FrameBit(<<"io::input", "UnitAlternateSequenceA", 0>>, 36),
    FrameBit(<<"io::input", "UnitAlternateSequenceB", 0>>, 37),
    FrameBit(<<"io::input", "UnitAlternateSequenceC", 0>>, 38),
    FrameBit(<<"io::input", "UnitAlternateSequenceD", 0>>, 39),
    FrameBit(<<"io::input", "PhasePhaseOmit", 1>>, 40),
    FrameBit(<<"io::input", "PhasePhaseOmit", 2>>, 41),
    FrameBit(<<"io::input", "PhasePhaseOmit", 3>>, 42),
    FrameBit(<<"io::input", "PhasePhaseOmit", 4>>, 43),
    FrameBit(<<"io::input", "PhasePhaseOmit", 5>>, 44),
    FrameBit(<<"io::input", "PhasePhaseOmit", 6>>, 45),
    FrameBit(<<"io::input", "PhasePhaseOmit", 7>>, 46),
    FrameBit(<<"io::input", "PhasePhaseOmit", 8>>, 47),
    FrameBit(<<"io::input", "PhasePedOmit", 1>>, 48),
    FrameBit(<<"io::input", "PhasePedOmit", 2>>, 49),
    FrameBit(<<"io::input", "PhasePedOmit", 3>>, 50),
    FrameBit(<<"io::input", "PhasePedOmit", 4>>, 51),
    FrameBit(<<"io::input", "PhasePedOmit", 5>>, 52),
    FrameBit(<<"io::input", "PhasePedOmit", 6>>, 53),
    FrameBit(<<"io::input", "PhasePedOmit", 7>>, 54),
    FrameBit(<<"io::input", "PhasePedOmit", 8>>, 55),
    FrameBit(<<"io::input", "UnitTimingPlanA", 0>>, 56),
    FrameBit(<<"io::input", "UnitTimingPlanB", 0>>, 57),
    FrameBit(<<"io::input", "UnitTimingPlanC", 0>>, 58),
    FrameBit(<<"io::input", "UnitTimingPlanD", 0>>, 59)
  >>)

\* TfBiu04_InputFrame: address 3, frame id 140, 8 bytes (vtc.hpp:3417-3481).
TfBiu04_InputFrame ==
  Frame(3, 140, 8, "SSG_ResponseFrameType", <<
    FrameBit(<<"io::input", "UnitSystemAddressBit_0", 0>>, 33),
    FrameBit(<<"io::input", "UnitSystemAddressBit_1", 0>>, 34),
    FrameBit(<<"io::input", "UnitSystemAddressBit_2", 0>>, 35),
    FrameBit(<<"io::input", "UnitSystemAddressBit_3", 0>>, 36),
    FrameBit(<<"io::input", "UnitSystemAddressBit_4", 0>>, 37),
    FrameBit(<<"io::input", "PhasePedOmit", 1>>, 48),
    FrameBit(<<"io::input", "PhasePedOmit", 2>>, 49),
    FrameBit(<<"io::input", "PhasePedOmit", 3>>, 50),
    FrameBit(<<"io::input", "PhasePedOmit", 4>>, 51),
    FrameBit(<<"io::input", "PhasePedOmit", 5>>, 52),
    FrameBit(<<"io::input", "PhasePedOmit", 6>>, 53),
    FrameBit(<<"io::input", "PhasePedOmit", 7>>, 54),
    FrameBit(<<"io::input", "PhasePedOmit", 8>>, 55),
    FrameBit(<<"io::input", "UnitOffset_1", 0>>, 56),
    FrameBit(<<"io::input", "UnitOffset_2", 0>>, 57),
    FrameBit(<<"io::input", "UnitOffset_3", 0>>, 58)
  >>)

\* DrBiu01_CallDataFrame: address 8, frame id 148, 39 bytes (vtc.hpp:3527-3561).
DrBiu01_CallDataFrame ==
  Frame(8, 148, 39, "SSG_ResponseFrameType", <<
    FrameBit(<<"io::input", "VehicleDetCall", 1>>, 280),
    FrameBit(<<"io::input", "VehicleDetCall", 2>>, 281),
    FrameBit(<<"io::input", "VehicleDetCall", 3>>, 282),
    FrameBit(<<"io::input", "VehicleDetCall", 4>>, 283),
    FrameBit(<<"io::input", "VehicleDetCall", 5>>, 284),
    FrameBit(<<"io::input", "VehicleDetCall", 6>>, 285),
    FrameBit(<<"io::input", "VehicleDetCall", 7>>, 286),
    FrameBit(<<"io::input", "VehicleDetCall", 8>>, 287),
    FrameBit(<<"io::input", "VehicleDetCall", 9>>, 288),
    FrameBit(<<"io::input", "VehicleDetCall", 10>>, 289),
    FrameBit(<<"io::input", "VehicleDetCall", 11>>, 290),
    FrameBit(<<"io::input", "VehicleDetCall", 12>>, 291),
    FrameBit(<<"io::input", "VehicleDetCall", 13>>, 292),
    FrameBit(<<"io::input", "VehicleDetCall", 14>>, 293),
    FrameBit(<<"io::input", "VehicleDetCall", 15>>, 294),
    FrameBit(<<"io::input", "VehicleDetCall", 16>>, 295)
  >>)

\* DrBiu02_CallDataFrame: address 9, frame id 149, 39 bytes (vtc.hpp:3572-3606).
DrBiu02_CallDataFrame ==
  Frame(9, 149, 39, "SSG_ResponseFrameType", <<
    FrameBit(<<"io::input", "VehicleDetCall", 17>>, 280),
    FrameBit(<<"io::input", "VehicleDetCall", 18>>, 281),
    FrameBit(<<"io::input", "VehicleDetCall", 19>>, 282),
    FrameBit(<<"io::input", "VehicleDetCall", 20>>, 283),
    FrameBit(<<"io::input", "VehicleDetCall", 21>>, 284),
    FrameBit(<<"io::input", "VehicleDetCall", 22>>, 285),
    FrameBit(<<"io::input", "VehicleDetCall", 23>>, 286),
    FrameBit(<<"io::input", "VehicleDetCall", 24>>, 287),
    FrameBit(<<"io::input", "VehicleDetCall", 25>>, 288),
    FrameBit(<<"io::input", "VehicleDetCall", 26>>, 289),
    FrameBit(<<"io::input", "VehicleDetCall", 27>>, 290),
    FrameBit(<<"io::input", "VehicleDetCall", 28>>, 291),
    FrameBit(<<"io::input", "VehicleDetCall", 29>>, 292),
    FrameBit(<<"io::input", "VehicleDetCall", 30>>, 293),
    FrameBit(<<"io::input", "VehicleDetCall", 31>>, 294),
    FrameBit(<<"io::input", "VehicleDetCall", 32>>, 295)
  >>)

\* DrBiu03_CallDataFrame: address 10, frame id 150, 39 bytes (vtc.hpp:3617-3651).
DrBiu03_CallDataFrame ==
  Frame(10, 150, 39, "SSG_ResponseFrameType", <<
    FrameBit(<<"io::input", "VehicleDetCall", 33>>, 280),
    FrameBit(<<"io::input", "VehicleDetCall", 34>>, 281),
    FrameBit(<<"io::input", "VehicleDetCall", 35>>, 282),
    FrameBit(<<"io::input", "VehicleDetCall", 36>>, 283),
    FrameBit(<<"io::input", "VehicleDetCall", 37>>, 284),
    FrameBit(<<"io::input", "VehicleDetCall", 38>>, 285),
    FrameBit(<<"io::input", "VehicleDetCall", 39>>, 286),
    FrameBit(<<"io::input", "VehicleDetCall", 40>>, 287),
    FrameBit(<<"io::input", "VehicleDetCall", 41>>, 288),
    FrameBit(<<"io::input", "VehicleDetCall", 42>>, 289),
    FrameBit(<<"io::input", "VehicleDetCall", 43>>, 290),
    FrameBit(<<"io::input", "VehicleDetCall", 44>>, 291),
    FrameBit(<<"io::input", "VehicleDetCall", 45>>, 292),
    FrameBit(<<"io::input", "VehicleDetCall", 46>>, 293),
    FrameBit(<<"io::input", "VehicleDetCall", 47>>, 294),
    FrameBit(<<"io::input", "VehicleDetCall", 48>>, 295)
  >>)

\* DrBiu04_CallDataFrame: address 11, frame id 151, 39 bytes (vtc.hpp:3662-3696).
DrBiu04_CallDataFrame ==
  Frame(11, 151, 39, "SSG_ResponseFrameType", <<
    FrameBit(<<"io::input", "VehicleDetCall", 49>>, 280),
    FrameBit(<<"io::input", "VehicleDetCall", 50>>, 281),
    FrameBit(<<"io::input", "VehicleDetCall", 51>>, 282),
    FrameBit(<<"io::input", "VehicleDetCall", 52>>, 283),
    FrameBit(<<"io::input", "VehicleDetCall", 53>>, 284),
    FrameBit(<<"io::input", "VehicleDetCall", 54>>, 285),
    FrameBit(<<"io::input", "VehicleDetCall", 55>>, 286),
    FrameBit(<<"io::input", "VehicleDetCall", 56>>, 287),
    FrameBit(<<"io::input", "VehicleDetCall", 57>>, 288),
    FrameBit(<<"io::input", "VehicleDetCall", 58>>, 289),
    FrameBit(<<"io::input", "VehicleDetCall", 59>>, 290),
    FrameBit(<<"io::input", "VehicleDetCall", 60>>, 291),
    FrameBit(<<"io::input", "VehicleDetCall", 61>>, 292),
    FrameBit(<<"io::input", "VehicleDetCall", 62>>, 293),
    FrameBit(<<"io::input", "VehicleDetCall", 63>>, 294),
    FrameBit(<<"io::input", "VehicleDetCall", 64>>, 295)
  >>)

\* DrBiu01_DiagnosticFrame: address 8, frame id 152, 19 bytes (vtc.hpp:3707-3729).
DrBiu01_DiagnosticFrame ==
  Frame(8, 152, 19, "SSG_ResponseFrameType", <<>>)

\* DrBiu02_DiagnosticFrame: address 9, frame id 153, 19 bytes (vtc.hpp:3740-3762).
DrBiu02_DiagnosticFrame ==
  Frame(9, 153, 19, "SSG_ResponseFrameType", <<>>)

\* DrBiu03_DiagnosticFrame: address 10, frame id 154, 19 bytes (vtc.hpp:3773-3795).
DrBiu03_DiagnosticFrame ==
  Frame(10, 154, 19, "SSG_ResponseFrameType", <<>>)

\* DrBiu04_DiagnosticFrame: address 10, frame id 155, 19 bytes (vtc.hpp:3806-3828).
DrBiu04_DiagnosticFrame ==
  Frame(10, 155, 19, "SSG_ResponseFrameType", <<>>)
(***************************************************************************)
(* FrameType<FrameID>::type                                                *)
(***************************************************************************)
FrameType(FrameID) ==
  CASE FrameID = 0   -> LoadSwitchDriversFrame
    [] FrameID = 1   -> MMUInputStatusRequestFrame
    [] FrameID = 3   -> MMUProgrammingRequestFrame
    [] FrameID = 9   -> DateTimeBroadcastFrame
    [] FrameID = 10  -> TfBiu01_OutputsInputsRequestFrame
    [] FrameID = 11  -> TfBiu02_OutputsInputsRequestFrame
    [] FrameID = 12  -> TfBiu03_OutputsInputsRequestFrame
    [] FrameID = 13  -> TfBiu04_OutputsInputsRequestFrame
    [] FrameID = 18  -> OutputTransferFrame
    [] FrameID = 20  -> DrBiu01_CallRequestFrame
    [] FrameID = 21  -> DrBiu02_CallRequestFrame
    [] FrameID = 22  -> DrBiu03_CallRequestFrame
    [] FrameID = 23  -> DrBiu04_CallRequestFrame
    [] FrameID = 24  -> DrBiu01_ResetDiagnosticRequestFrame
    [] FrameID = 25  -> DrBiu02_ResetDiagnosticRequestFrame
    [] FrameID = 26  -> DrBiu03_ResetDiagnosticRequestFrame
    [] FrameID = 27  -> DrBiu04_ResetDiagnosticRequestFrame
    [] FrameID = 128 -> LoadSwitchDriversAckFrame
    [] FrameID = 129 -> MMUInputStatusRequestAckFrame
    [] FrameID = 131 -> MMUProgrammingRequestAckFrame
    [] FrameID = 138 -> TfBiu01_InputFrame
    [] FrameID = 139 -> TfBiu02_InputFrame
    [] FrameID = 140 -> TfBiu03_InputFrame
    [] FrameID = 141 -> TfBiu04_InputFrame
    [] FrameID = 148 -> DrBiu01_CallDataFrame
    [] FrameID = 149 -> DrBiu02_CallDataFrame
    [] FrameID = 150 -> DrBiu03_CallDataFrame
    [] FrameID = 151 -> DrBiu04_CallDataFrame
    [] FrameID = 152 -> DrBiu01_DiagnosticFrame
    [] FrameID = 153 -> DrBiu02_DiagnosticFrame
    [] FrameID = 154 -> DrBiu03_DiagnosticFrame
    [] FrameID = 155 -> DrBiu04_DiagnosticFrame

\* The frame ids for which FrameType is specialised.
FrameTypeIDs ==
  {0, 1, 3, 9, 10, 11, 12, 13, 18, 20, 21, 22, 23, 24, 25, 26, 27,
   128, 129, 131, 138, 139, 140, 141, 148, 149, 150, 151, 152, 153, 154, 155}

(***************************************************************************)
(* The dispatcher                                                          *)
(***************************************************************************)
FrameMap(CommandFrameID, ResponseFrameID) ==
  <<FrameType(CommandFrameID), FrameType(ResponseFrameID)>>

\* The table whose response 129 carries the green status of channel 15 at
\* bit 0x26.
frame_mapsWithChannel15 ==
  << FrameMap(0, 128),
     << FrameType(1),
        [FrameType(129) EXCEPT !.m_frame_elements[15] =
           FrameBit(<<"mmu", "ChannelGreenWalkStatus", 15>>, 38)] >>,
     FrameMap(3, 131),
     FrameMap(10, 138),
     FrameMap(11, 139),
     FrameMap(12, 140),
     FrameMap(13, 141),
     FrameMap(20, 148),
     FrameMap(21, 149),
     FrameMap(22, 150),
     FrameMap(23, 151),
     FrameMap(24, 152),
     FrameMap(25, 153),
     FrameMap(26, 154),
     FrameMap(27, 155) >>

frame_maps ==
  << FrameMap(0, 128),
     FrameMap(1, 129),
     FrameMap(3, 131),
     FrameMap(10, 138),
     FrameMap(11, 139),
     FrameMap(12, 140),
     FrameMap(13, 141),
     FrameMap(20, 148),
     FrameMap(21, 149),
     FrameMap(22, 150),
     FrameMap(23, 151),
     FrameMap(24, 152),
     FrameMap(25, 153),
     FrameMap(26, 154),
     FrameMap(27, 155) >>

frame_maps_size == Len(frame_maps)

ZeroBuffer == [i \in 1..max_sdlc_frame_bytesize |-> 0]

\* Dispatch selecting the pair by the station address (byte 0) of the input.
RECURSIVE DispatchOnAddress(_, _, _, _)
DispatchOnAddress(I, a_data_in, tbl, buf) ==
  IF I <= frame_maps_size
  THEN LET cmd_frame == frame_maps[I][1]
           res_frame == frame_maps[I][2]
       IN  IF cmd_frame.address = At(a_data_in, 0)
           THEN The({ [success |-> TRUE, size |-> res_frame.bytesize,
                       variable |-> decoded,
                       buffer |-> FrameOut(res_frame, buf, decoded)] :
                        decoded \in { FrameIn(cmd_frame, a_data_in, tbl) } })
           ELSE DispatchOnAddress(I + 1, a_data_in, tbl, buf)
  ELSE [success |-> FALSE, size |-> Len(buf), variable |-> tbl, buffer |-> buf]

\* Dispatch emptying the buffer also when no pair matches.
RECURSIVE DispatchClearingBuffer(_, _, _, _)
DispatchClearingBuffer(I, a_data_in, tbl, buf) ==
  IF I <= frame_maps_size
  THEN LET cmd_frame == frame_maps[I][1]
           res_frame == frame_maps[I][2]
       IN  IF cmd_frame.id = At(a_data_in, 2)
           THEN The({ [success |-> TRUE, size |-> res_frame.bytesize,
                       variable |-> decoded,
                       buffer |-> FrameOut(res_frame, buf, decoded)] :
                        decoded \in { FrameIn(cmd_frame, a_data_in, tbl) } })
           ELSE DispatchClearingBuffer(I + 1, a_data_in, tbl, buf)
  ELSE [success |-> FALSE, size |-> Len(buf), variable |-> tbl, buffer |-> ZeroBuffer]

\* Dispatch encoding the response before it decodes the command from the
\* buffer.
RECURSIVE DispatchEncodingFirst(_, _, _, _)
DispatchEncodingFirst(I, a_data_in, tbl, buf) ==
  IF I <= frame_maps_size
  THEN LET cmd_frame == frame_maps[I][1]
           res_frame == frame_maps[I][2]
       IN  IF cmd_frame.id = At(a_data_in, 2)
           THEN The({ [success |-> TRUE, size |-> res_frame.bytesize,
                       variable |-> FrameIn(cmd_frame, Span(encoded, a_data_in.size), tbl),
                       buffer |-> encoded] :
                        encoded \in { FrameOut(res_frame, buf, tbl) } })
           ELSE DispatchEncodingFirst(I + 1, a_data_in, tbl, buf)
  ELSE [success |-> FALSE, size |-> Len(buf), variable |-> tbl, buffer |-> buf]

\* Dispatch<I>(a_data_in) on the variables tbl and the buffer buf: the
\* returned tuple {success, span of size bytes of serial::buffer}, and the
\* variables and the buffer as the call leaves them.
RECURSIVE Dispatch(_, _, _, _)
Dispatch(I, a_data_in, tbl, buf) ==
  IF I <= frame_maps_size
  THEN LET cmd_frame == frame_maps[I][1]
           res_frame == frame_maps[I][2]
       IN  IF cmd_frame.id = At(a_data_in, 2)
           THEN The({ [success |-> TRUE, size |-> res_frame.bytesize,
                       variable |-> decoded,
                       buffer |-> FrameOut(res_frame, buf, decoded)] :
                        decoded \in { FrameIn(cmd_frame, a_data_in, tbl) } })
           ELSE Dispatch(I + 1, a_data_in, tbl, buf)
  ELSE [success |-> FALSE, size |-> Len(buf), variable |-> tbl, buffer |-> buf]

(***************************************************************************)
(* The cabinet variables that exist: one variable<T> per type T that the   *)
(* frame definitions and the wirings name.                                 *)
(***************************************************************************)
Variables ==
  UNION { { FrameType(id).m_frame_elements[k].ref_var :
              k \in 1..Len(FrameType(id).m_frame_elements) } : id \in FrameTypeIDs }

\* Static initialisation std::atomic<T> value{} of every variable.
ZeroVariables ==
  [ns \in {T[1] : T \in Variables} |->
    [name \in {T[2] : T \in {U \in Variables : U[1] = ns}} |->
      [index \in {T[3] : T \in {U \in Variables : U[1] = ns /\ U[2] = name}} |-> 0]]]

NoCall == [op |-> "none"]

\* The state after static initialisation.
Init ==
  /\ variable = ZeroVariables
  /\ buffer = ZeroBuffer
  /\ ret = NoCall
  /\ ncalls = 0
  /\ sdlc_enabled_ = FALSE
  /\ ec_ = 0
  /\ threads = <<>>
  /\ nreads = 0
  /\ initok_ = FALSE
  /\ loadswitch_wirings_ = [I \in 1..16 |-> <<>>]
  /\ detector_wirings_ = [I \in 1..64 |-> <<>>]
  /\ nstarts = 0

(***************************************************************************)
(* Calls of serial::Dispatch by a caller that owns the input array, as the *)
(* tests make them.                                                        *)
(***************************************************************************)
MaxCalls == 2

Fill(n, b) == [i \in 1..n |-> b]

\* An array of the given bytes, followed in memory by bytes of value behind.
ArrayOf(bytes, behind) ==
  Span(bytes \o Fill(max_sdlc_frame_bytesize - Len(bytes), behind), Len(bytes))

\* The command frame of the given id with its own address, its declared
\* length and every payload byte equal to fill.
CommandOf(id, fill) ==
  ArrayOf(<<FrameType(id).address, 131, id>> \o Fill(FrameType(id).bytesize - 3, fill), 0)

CommandFrameIDs == { frame_maps[I][1].id : I \in 1..frame_maps_size }

DispatchInputs ==
     \* every command of the table, header only
     { ArrayOf(<<FrameType(id).address, 131, id>>, 0) : id \in CommandFrameIDs }
     \* foreign address and control bytes
  \cup { ArrayOf(<<85, 0, id>>, 0) : id \in {3, 27} }
     \* commands with a payload
  \cup { CommandOf(id, 255) : id \in {0, 10, 24} }
     \* header-only commands of frames that have elements
  \cup { ArrayOf(<<FrameType(id).address, 131, id>>, 255) : id \in {0, 24} }
     \* frame ids that are not commands of the table
  \cup { ArrayOf(<<16, 131, id>>, 0) : id \in {2, 128, 131, 255} }
  \cup { CommandOf(id, 255) : id \in {9, 18} }
     \* arrays shorter than a header
  \cup { ArrayOf(<<>>, 0), ArrayOf(<<16>>, 255), ArrayOf(<<16, 131>>, 3) }

CallDispatch(a_data_in) ==
  /\ ncalls < MaxCalls
  /\ \E r \in { Dispatch(1, a_data_in, variable, buffer) } :
       /\ variable' = r.variable
       /\ buffer' = r.buffer
       /\ ret' = [op |-> "Dispatch", a_data_in |-> a_data_in,
                  success |-> r.success,
                  response_data |-> SubSeq(r.buffer, 1, r.size)]
  /\ ncalls' = ncalls + 1
  /\ UNCHANGED hils

NextDispatch == \E a_data_in \in DispatchInputs : CallDispatch(a_data_in)

SpecDispatch == Init /\ [][NextDispatch]_vars

(***************************************************************************)
(* MMU16 channel compatibility                                             *)
(*                                                                         *)
(* A std::bitset<N> is a function from the bit positions 0..N-1 to 0 or 1; *)
(* a std::string is a sequence of one-character strings.                   *)
(***************************************************************************)
ChannelCompatibilityStatus(Ix, Iy) ==
  <<"mmu", "ChannelCompatibilityStatus", Ix * 256 + Iy>>

ChannelSegmentSize(Channel, MaxChannel) == MaxChannel - Channel

\* A start position computed from the channel's own segment size.
RECURSIVE ChannelSegmentStartPosOwnSize(_, _)
ChannelSegmentStartPosOwnSize(Channel, MaxChannel) ==
  IF Channel = 1 THEN 0
  ELSE IF Channel = 2 THEN ChannelSegmentSize(2, MaxChannel)
  ELSE ChannelSegmentSize(Channel, MaxChannel)
         + ChannelSegmentStartPosOwnSize(Channel - 1, 16)

RECURSIVE ChannelSegmentStartPos(_, _)
ChannelSegmentStartPos(Channel, MaxChannel) ==
  IF Channel = 1 THEN 0
  ELSE IF Channel = 2 THEN ChannelSegmentSize(1, MaxChannel)
  ELSE ChannelSegmentSize(Channel - 1, MaxChannel)
         + ChannelSegmentStartPos(Channel - 1, 16)

offset_sequence_t(Offset, seq) == [k \in 1..Len(seq) |-> seq[k] + (Offset + 1)]

make_integer_sequence(N) == [k \in 1..N |-> k - 1]

add_sequence_front(I, seq) == <<I>> \o seq

ChannelCompatibilityPairedIndexes(ChannelID, MaxChannel) ==
  offset_sequence_t(ChannelID, make_integer_sequence(MaxChannel - ChannelID))

\* std::bitset<N>{}: every bit is zero.
ZeroBitset(N) == [i \in 0..(N - 1) |-> 0]

\* std::bitset<N>{str}: of the first M = min(N, length) characters, the one
\* at M - 1 - i gives bit i; the bits from M on are zero.
Bitset(N, str) ==
  LET M == IF Len(str) < N THEN Len(str) ELSE N
  IN  [i \in 0..(N - 1) |->
         IF i < M THEN (IF str[(M - 1 - i) + 1] = "1" THEN 1 ELSE 0) ELSE 0]

RECURSIVE impl_SetMMU16ChannelCompatibility(_, _, _)
impl_SetMMU16ChannelCompatibility(a_mmu16_comp, a_seq, tbl) ==
  LET Ix == a_seq[1]
      Iy == a_seq[2]
      Iys == SubSeq(a_seq, 3, Len(a_seq))
  IN  The({ IF Len(a_seq) > 2
            THEN impl_SetMMU16ChannelCompatibility(a_mmu16_comp, <<Ix>> \o Iys, stored)
            ELSE stored :
              stored \in { Store(tbl, ChannelCompatibilityStatus(Ix, Iy),
                                 a_mmu16_comp[ChannelSegmentStartPos(Ix, 16) + Iy - Ix - 1]) } })

RECURSIVE impl_GetMMU16ChannelCompatibility(_, _, _)
impl_GetMMU16ChannelCompatibility(a_mmu16_comp, a_seq, tbl) ==
  LET Ix == a_seq[1]
      Iy == a_seq[2]
      Iys == SubSeq(a_seq, 3, Len(a_seq))
  IN  The({ IF Len(a_seq) > 2
            THEN impl_GetMMU16ChannelCompatibility(got, <<Ix>> \o Iys, tbl)
            ELSE got :
              got \in { [a_mmu16_comp EXCEPT
                           ![ChannelSegmentStartPos(Ix, 16) + Iy - Ix - 1] =
                              IF Value(tbl, ChannelCompatibilityStatus(Ix, Iy)) = On
                              THEN 1 ELSE 0] } })

RECURSIVE SetMMU16ChannelCompatibility(_, _, _)
SetMMU16ChannelCompatibility(Ix, a_mmu16_comp, tbl) ==
  IF Ix < 16
  THEN The({ SetMMU16ChannelCompatibility(Ix + 1, a_mmu16_comp, t) :
               t \in { impl_SetMMU16ChannelCompatibility(
                         a_mmu16_comp,
                         add_sequence_front(Ix, ChannelCompatibilityPairedIndexes(Ix, 16)),
                         tbl) } })
  ELSE tbl

RECURSIVE GetMMU16ChannelCompatibility(_, _, _)
GetMMU16ChannelCompatibility(Ix, a_mmu16_comp, tbl) ==
  IF Ix < 16
  THEN The({ GetMMU16ChannelCompatibility(Ix + 1, got, tbl) :
               got \in { impl_GetMMU16ChannelCompatibility(
                           a_mmu16_comp,
                           add_sequence_front(Ix, ChannelCompatibilityPairedIndexes(Ix, 16)),
                           tbl) } })
  ELSE a_mmu16_comp

\* Every variable of the mmu domain set Off.
ZeroOutWholeDomain(tbl) ==
  [tbl EXCEPT !["mmu"] = [name \in DOMAIN @ |-> [i \in DOMAIN @[name] |-> Off]]]

ZeroOutMMU16ChannelCompatibility(tbl) ==
  LET mmu_comp_def == ZeroBitset(120)
  IN  SetMMU16ChannelCompatibility(1, mmu_comp_def, tbl)

\* After the loop bit i holds what bit N - i - 1 held before it.
reverse(N, a_bitset) == [i \in 0..(N - 1) |-> a_bitset[N - i - 1]]

\* The string literal of SetDefaultMMU16ChannelCompatibility, one row for each
\* of the channels 1 to 15.
mmu16_comp_def_literal ==
     <<"0", "0", "0", "1", "1", "0", "0", "0", "0", "1", "0", "0", "0", "0", "0">>
  \o <<"0", "0", "1", "1", "0", "0", "1", "0", "1", "0", "0", "0", "0", "0">>
  \o <<"0", "0", "0", "1", "1", "0", "0", "0", "1", "0", "0", "0", "0">>
  \o <<"0", "0", "1", "1", "0", "1", "0", "1", "0", "0", "0", "0">>
  \o <<"0", "0", "0", "1", "0", "0", "0", "0", "0", "0", "0">>
  \o <<"0", "0", "1", "0", "1", "0", "0", "0", "0", "0">>
  \o <<"0", "0", "1", "0", "0", "0", "0", "0", "0">>
  \o <<"0", "1", "0", "1", "0", "0", "0", "0">>
  \o <<"0", "1", "0", "0", "0", "0", "0">>
  \o <<"0", "1", "0", "0", "0", "0">>
  \o <<"0", "0", "0", "0", "0">>
  \o <<"0", "0", "0", "0">>
  \o <<"0", "0", "0">>
  \o <<"0", "0">>
  \o <<"0">>

\* The characters appended to bitstr by the switch; a character without a
\* case appends nothing.
HexCase(c) ==
  CASE c = "0" -> <<"0", "0", "0", "0">>
    [] c = "1" -> <<"0", "0", "0", "1">>
    [] c = "2" -> <<"0", "0", "1", "0">>
    [] c = "3" -> <<"0", "0", "1", "1">>
    [] c = "4" -> <<"0", "1", "0", "0">>
    [] c = "5" -> <<"0", "1", "0", "1">>
    [] c = "6" -> <<"0", "1", "1", "0">>
    [] c = "7" -> <<"0", "1", "1", "1">>
    [] c = "8" -> <<"1", "0", "0", "0">>
    [] c = "9" -> <<"1", "0", "0", "1">>
    [] c = "A" -> <<"1", "0", "1", "0">>
    [] c = "B" -> <<"1", "0", "1", "1">>
    [] c = "C" -> <<"1", "1", "0", "0">>
    [] c = "D" -> <<"1", "1", "0", "1">>
    [] c = "E" -> <<"1", "1", "1", "0">>
    [] c = "F" -> <<"1", "1", "1", "1">>
    [] OTHER -> <<>>

\* std::toupper in the C locale.
toupper(c) ==
  CASE c = "a" -> "A"
    [] c = "b" -> "B"
    [] c = "c" -> "C"
    [] c = "d" -> "D"
    [] c = "e" -> "E"
    [] c = "f" -> "F"
    [] c = "g" -> "G"
    [] c = "h" -> "H"
    [] c = "i" -> "I"
    [] c = "j" -> "J"
    [] c = "k" -> "K"
    [] c = "l" -> "L"
    [] c = "m" -> "M"
    [] c = "n" -> "N"
    [] c = "o" -> "O"
    [] c = "p" -> "P"
    [] c = "q" -> "Q"
    [] c = "r" -> "R"
    [] c = "s" -> "S"
    [] c = "t" -> "T"
    [] c = "u" -> "U"
    [] c = "v" -> "V"
    [] c = "w" -> "W"
    [] c = "x" -> "X"
    [] c = "y" -> "Y"
    [] c = "z" -> "Z"
    [] OTHER -> c

\* The default compatibility set from the literal as it is written.
SetDefaultMMU16ChannelCompatibilityNotReversed(tbl) ==
  LET mmu16_comp_def == Bitset(120, mmu16_comp_def_literal)
  IN  SetMMU16ChannelCompatibility(1, mmu16_comp_def, tbl)

SetDefaultMMU16ChannelCompatibility(tbl) ==
  LET mmu16_comp_def == Bitset(120, mmu16_comp_def_literal)
      \* the bitset is reversed, so that the least significant bit is compat<1,2>
      reversed == reverse(120, mmu16_comp_def)
  IN  SetMMU16ChannelCompatibility(1, reversed, tbl)

RECURSIVE bitstr(_, _)
bitstr(a_hexstr, k) ==
  IF k > Len(a_hexstr) THEN <<>>
  ELSE HexCase(toupper(a_hexstr[k])) \o bitstr(a_hexstr, k + 1)

\* The set of the hex string with the bit order of its bitset reversed.
SetMMU16ChannelCompatibility_hexstrReversed(a_hexstr, tbl) ==
  LET comp == reverse(120, Bitset(120, bitstr(a_hexstr, 1)))
  IN  SetMMU16ChannelCompatibility(1, comp, tbl)

SetMMU16ChannelCompatibility_hexstr(a_hexstr, tbl) ==
  LET comp == Bitset(120, bitstr(a_hexstr, 1))
  IN  SetMMU16ChannelCompatibility(1, comp, tbl)

(***************************************************************************)
(* HilsCI::load_mmu16_channel_compatibility.  A configuration document is  *)
(* the record of what select_node finds at /HilsCI/mmu/@channel_           *)
(* compatibility: no node, or the attribute with its value.  The result    *)
(* is the variable table and the level of the message that is logged.      *)
(***************************************************************************)
NoAttribute == [xpath |-> FALSE]

Attribute(value) == [xpath |-> TRUE, value |-> value]

load_mmu16_channel_compatibility(a_config, tbl) ==
  IF a_config.xpath
  THEN LET compat_str == a_config.value
       IN  IF Len(compat_str) # 30
           THEN [variable |-> tbl, log |-> "error"]
           ELSE [variable |-> SetMMU16ChannelCompatibility_hexstr(compat_str, tbl),
                 log |-> "none"]
  ELSE [variable |-> SetDefaultMMU16ChannelCompatibility(tbl), log |-> "info"]

(***************************************************************************)
(* Callers of the compatibility functions: the tests and the loader call   *)
(* them with bitsets, hex strings and configuration documents.             *)
(***************************************************************************)
Rep(n, c) == [i \in 1..n |-> c]

BinaryCode(m) == [k \in 0..119 |-> (k \div (2 ^ m)) % 2]

Single(p) == [k \in 0..119 |-> IF k = p THEN 1 ELSE 0]

SampleBitsets ==
       { BinaryCode(m) : m \in 0..6 }
  \cup { Single(p) : p \in {0, 14, 15, 119} }
  \cup { ZeroBitset(120), [k \in 0..119 |-> 1] }

\* The hex string of vtc_tests.cpp, "00001020A020280202B02300A60218".
TestHexString ==
  <<"0", "0", "0", "0", "1", "0", "2", "0", "A", "0", "2", "0", "2", "8", "0",
    "2", "0", "2", "B", "0", "2", "3", "0", "0", "A", "6", "0", "2", "1", "8">>

tolower(c) == IF c = "A" THEN "a" ELSE IF c = "B" THEN "b" ELSE c

HexStrings30 ==
  { TestHexString,
    [k \in 1..30 |-> tolower(TestHexString[k])],
    Rep(30, "F"), Rep(30, "0"),
    Rep(29, "0") \o <<"1">>,
    <<"8">> \o Rep(29, "0"),
    <<"c">> \o Rep(14, "3") \o Rep(14, "9") \o <<"e">>,
    <<"4", "d">> \o Rep(26, "7") \o <<"5", "6">> }

OtherStrings ==
  { <<>>, <<"F">>, Rep(29, "F"), Rep(31, "F"),
    TestHexString \o <<"0">>, <<"1">> \o Rep(30, "0"),
    <<"G">> \o Rep(29, "F"), Rep(30, "x") }

SampleStrings == HexStrings30 \cup OtherStrings

CallSetMMU16ChannelCompatibility(a_mmu16_comp) ==
  /\ variable' = SetMMU16ChannelCompatibility(1, a_mmu16_comp, variable)
  /\ ret' = [op |-> "SetMMU16ChannelCompatibility", a_mmu16_comp |-> a_mmu16_comp]
  /\ UNCHANGED <<buffer, ncalls, hils>>

CallGetMMU16ChannelCompatibility(a_mmu16_comp) ==
  /\ ret' = [op |-> "GetMMU16ChannelCompatibility",
             a_mmu16_comp |-> GetMMU16ChannelCompatibility(1, a_mmu16_comp, variable)]
  /\ UNCHANGED <<variable, buffer, ncalls, hils>>

CallZeroOutMMU16ChannelCompatibility ==
  /\ variable' = ZeroOutMMU16ChannelCompatibility(variable)
  /\ ret' = [op |-> "ZeroOutMMU16ChannelCompatibility"]
  /\ UNCHANGED <<buffer, ncalls, hils>>

CallSetDefaultMMU16ChannelCompatibility ==
  /\ variable' = SetDefaultMMU16ChannelCompatibility(variable)
  /\ ret' = [op |-> "SetDefaultMMU16ChannelCompatibility"]
  /\ UNCHANGED <<buffer, ncalls, hils>>

CallSetMMU16ChannelCompatibility_hexstr(a_hexstr) ==
  /\ variable' = SetMMU16ChannelCompatibility_hexstr(a_hexstr, variable)
  /\ ret' = [op |-> "SetMMU16ChannelCompatibility_hexstr", a_hexstr |-> a_hexstr]
  /\ UNCHANGED <<buffer, ncalls, hils>>

Call_load_mmu16_channel_compatibility(a_config) ==
  /\ \E r \in { load_mmu16_channel_compatibility(a_config, variable) } :
       /\ variable' = r.variable
       /\ ret' = [op |-> "load_mmu16_channel_compatibility",
                  a_config |-> a_config, log |-> r.log]
  /\ UNCHANGED <<buffer, ncalls, hils>>

NextMmu ==
  \/ \E a_mmu16_comp \in SampleBitsets
            \cup (IF ret.op = "GetMMU16ChannelCompatibility"
                  THEN {ret.a_mmu16_comp} ELSE {}) :
       CallSetMMU16ChannelCompatibility(a_mmu16_comp)
  \/ \E a_mmu16_comp \in {ZeroBitset(120), BinaryCode(0)} :
       CallGetMMU16ChannelCompatibility(a_mmu16_comp)
  \/ CallZeroOutMMU16ChannelCompatibility
  \/ CallSetDefaultMMU16ChannelCompatibility
  \/ \E a_hexstr \in SampleStrings :
       CallSetMMU16ChannelCompatibility_hexstr(a_hexstr)
  \/ \E a_config \in {NoAttribute} \cup { Attribute(s) : s \in SampleStrings } :
       Call_load_mmu16_channel_compatibility(a_config)

SpecMmu == Init /\ [][NextMmu]_vars

(***************************************************************************)
(* A caller that programs the compatibility card, by the packer or by      *)
(* assignments to single variables as the tests make them, and dispatches  *)
(* MMU commands.                                                           *)
(***************************************************************************)
ProgrammingBitsets ==
  { ZeroBitset(120), BinaryCode(3) }

ProgrammingVariables ==
  { ChannelCompatibilityStatus(1, 2), ChannelCompatibilityStatus(1, 5),
    ChannelCompatibilityStatus(1, 6) }

ProgrammingInputs ==
  { ArrayOf(<<16, 131, 3>>, 0), ArrayOf(<<16, 131, 1>>, 0),
    ArrayOf(<<16, 131, 2>>, 0) }

\* variable<T>.value = v
AssignVariable(T, v) ==
  /\ variable' = Store(variable, T, v)
  /\ ret' = [op |-> "AssignVariable", T |-> T, v |-> v]
  /\ UNCHANGED <<buffer, ncalls, hils>>

NextProgramming ==
  \/ \E a_mmu16_comp \in ProgrammingBitsets :
       CallSetMMU16ChannelCompatibility(a_mmu16_comp)
  \/ \E T \in ProgrammingVariables, v \in {Off, On} : AssignVariable(T, v)
  \/ \E a_data_in \in ProgrammingInputs : CallDispatch(a_data_in)

SpecProgramming == Init /\ [][NextProgramming]_vars

(***************************************************************************)
(* hils: the loadswitch channels                                           *)
(***************************************************************************)
num_loadswitches == 16

Blank == 0
Red == 1
Yellow == 2
Green == 3

LoadswitchDriver(I) ==
  << <<"io::output", "ChannelGreenWalkDriver", I>>,
     <<"io::output", "ChannelYellowPedClearDriver", I>>,
     <<"io::output", "ChannelRedDoNotWalkDriver", I>> >>

\* A state in which a green driver that is On decides.
stateGreenFirst(I, tbl) ==
  LET driver_ == LoadswitchDriver(I)
      g == Value(tbl, driver_[1])
      y == Value(tbl, driver_[2])
      r == Value(tbl, driver_[3])
  IN  CASE g = On -> Green
        [] <<g, y, r>> = <<Off, On, Off>> -> Yellow
        [] <<g, y, r>> = <<Off, Off, On>> -> Red
        [] OTHER -> Blank

\* LoadswitchChannel<I>::state()
state(I, tbl) ==
  LET driver_ == LoadswitchDriver(I)
      g == Value(tbl, driver_[1])
      y == Value(tbl, driver_[2])
      r == Value(tbl, driver_[3])
  IN  CASE <<g, y, r>> = <<On, Off, Off>> -> Green
        [] <<g, y, r>> = <<Off, On, Off>> -> Yellow
        [] <<g, y, r>> = <<Off, Off, On>> -> Red
        [] OTHER -> Blank

\* The variables after the drivers of one loadswitch channel have been set.
DrivenVariables(I, g, y, r) ==
  LET driver_ == LoadswitchDriver(I)
  IN  Store(Store(Store(ZeroVariables, driver_[1], g), driver_[2], y), driver_[3], r)

InitLoadswitch ==
  /\ \E I \in 1..num_loadswitches : \E g \in {Off, On}, y \in {Off, On}, r \in {Off, On} :
       variable = DrivenVariables(I, g, y, r)
  /\ buffer = ZeroBuffer
  /\ ret = NoCall
  /\ ncalls = 0
  /\ sdlc_enabled_ = FALSE
  /\ ec_ = 0
  /\ threads = <<>>
  /\ nreads = 0
  /\ initok_ = FALSE
  /\ loadswitch_wirings_ = [I \in 1..16 |-> <<>>]
  /\ detector_wirings_ = [I \in 1..64 |-> <<>>]
  /\ nstarts = 0

Call_state(I) ==
  /\ ret' = [op |-> "state", I |-> I, state |-> state(I, variable)]
  /\ UNCHANGED <<variable, buffer, ncalls, hils>>

NextLoadswitch == \E I \in 1..num_loadswitches : Call_state(I)

SpecLoadswitch == InitLoadswitch /\ [][NextLoadswitch]_vars

(***************************************************************************)
(* HilsCI: the SDLC loop.  enable_sdlc starts a detached thread that       *)
(* repeats: test sdlc_enabled_, read a frame from the serial device into   *)
(* serial::buffer, Dispatch the bytes read, write the response data to the *)
(* device.  A thread is a record of its position in the loop and of its    *)
(* local variables count, success and response_data (a span of the shared  *)
(* buffer, kept as its size).                                              *)
(***************************************************************************)
MaxThreads == 2
MaxReads == 2

\* SerialDevice::ready()
ready == ec_ = 0

\* The state in which SimulationStarted calls enable_sdlc: load_config has
\* set the compatibility of a configuration without the attribute and has
\* created the serial device, whose module may have failed to load.
InitSdlc ==
  /\ variable = load_mmu16_channel_compatibility(NoAttribute, ZeroVariables).variable
  /\ buffer = ZeroBuffer
  /\ ret = NoCall
  /\ ncalls = 0
  /\ sdlc_enabled_ = FALSE
  /\ ec_ \in {0, 126}
  /\ threads = <<>>
  /\ nreads = 0
  /\ initok_ = FALSE
  /\ loadswitch_wirings_ = [I \in 1..16 |-> <<>>]
  /\ detector_wirings_ = [I \in 1..64 |-> <<>>]
  /\ nstarts = 0

enable_sdlc ==
  /\ IF ready /\ ~sdlc_enabled_
     THEN /\ Len(threads) < MaxThreads
          /\ sdlc_enabled_' = TRUE
          /\ threads' = Append(threads, [pc |-> "while", count |-> 0,
                                          success |-> FALSE, size |-> 0])
     ELSE UNCHANGED <<sdlc_enabled_, threads>>
  /\ ret' = [op |-> "enable_sdlc", result |-> sdlc_enabled_']
  /\ UNCHANGED <<variable, buffer, ncalls, ec_, nreads, wirings>>

disable_sdlc ==
  /\ sdlc_enabled_' = FALSE
  /\ ret' = [op |-> "disable_sdlc"]
  /\ UNCHANGED <<variable, buffer, ncalls, ec_, threads, nreads, wirings>>

\* A loop that starts its next iteration whatever the flag is.
LoopWhileIgnoringFlag(t) ==
  /\ threads[t].pc = "while"
  /\ threads' = [threads EXCEPT ![t].pc = "read"]
  /\ ret' = [op |-> "while", thread |-> t, sdlc_enabled_ |-> sdlc_enabled_]
  /\ UNCHANGED <<variable, buffer, ncalls, sdlc_enabled_, ec_, nreads, wirings>>

\* while (sdlc_enabled_)
LoopWhile(t) ==
  /\ threads[t].pc = "while"
  /\ threads' = [threads EXCEPT ![t].pc = IF sdlc_enabled_ THEN "read" ELSE "exited"]
  /\ ret' = [op |-> "while", thread |-> t, sdlc_enabled_ |-> sdlc_enabled_]
  /\ UNCHANGED <<variable, buffer, ncalls, sdlc_enabled_, ec_, nreads, wirings>>

\* auto count = device_->read(serial::buffer): the device stores the bytes
\* of a frame at the start of the buffer and returns their number.
LoopRead(t, frame) ==
  /\ threads[t].pc = "read"
  /\ nreads < MaxReads
  /\ buffer' = [i \in 1..max_sdlc_frame_bytesize |->
                  IF i <= Len(frame) THEN frame[i] ELSE buffer[i]]
  /\ threads' = [threads EXCEPT ![t].pc = "Dispatch", ![t].count = Len(frame)]
  /\ nreads' = nreads + 1
  /\ ret' = [op |-> "read", thread |-> t, count |-> Len(frame)]
  /\ UNCHANGED <<variable, ncalls, sdlc_enabled_, ec_, wirings>>

\* auto [success, response_data] = Dispatch({serial::buffer.data(), count})
LoopDispatch(t) ==
  /\ threads[t].pc = "Dispatch"
  /\ \E r \in { Dispatch(1, Span(buffer, threads[t].count), variable, buffer) } :
       /\ variable' = r.variable
       /\ buffer' = r.buffer
       /\ threads' = [threads EXCEPT ![t].pc = "write", ![t].success = r.success,
                                      ![t].size = r.size]
       /\ ret' = [op |-> "loop Dispatch", thread |-> t, success |-> r.success]
  /\ UNCHANGED <<ncalls, sdlc_enabled_, ec_, nreads, wirings>>

\* device_->write(response_data): the bytes of the span are transmitted and
\* the result of the device's write function becomes the error code.
LoopWrite(t, result) ==
  /\ threads[t].pc = "write"
  /\ ec_' = result
  /\ threads' = [threads EXCEPT ![t].pc = "while"]
  /\ ret' = [op |-> "write", thread |-> t, success |-> threads[t].success,
             a_buf |-> SubSeq(buffer, 1, threads[t].size)]
  /\ UNCHANGED <<variable, buffer, ncalls, sdlc_enabled_, nreads, wirings>>

\* The frames that the controller sends: an MMU programming request, a
\* detector reset request with its payload, a frame that is no command of the
\* table and a read that returns no byte.
SdlcFrames == { <<16, 131, 3>>, <<11, 131, 27, 255>>, <<16, 131, 2>>, <<>> }

NextSdlc ==
  \/ enable_sdlc
  \/ disable_sdlc
  \/ \E t \in 1..Len(threads) : LoopWhile(t)
  \/ \E t \in 1..Len(threads) : \E frame \in SdlcFrames : LoopRead(t, frame)
  \/ \E t \in 1..Len(threads) : LoopDispatch(t)
  \/ \E t \in 1..Len(threads) : \E result \in {0, 5} : LoopWrite(t, result)

SpecSdlc == InitSdlc /\ [][NextSdlc]_vars

(***************************************************************************)
(* The SDLC loop fed by a controller that sends load switch driver frames  *)
(* to the MMU and output frames to TF BIU 1, and a frame that is no        *)
(* command of the table; the writes of the device succeed.                 *)
(***************************************************************************)
LoopFrames ==
  { <<16, 131, 0, 195>> \o Fill(11, 0) \o <<128>>,
    <<0, 131, 10, 3>> \o Fill(7, 0),
    <<16, 131, 2>> }

NextLoop ==
  \/ enable_sdlc
  \/ disable_sdlc
  \/ \E t \in 1..Len(threads) : LoopWhile(t)
  \/ \E t \in 1..Len(threads) : \E frame \in LoopFrames : LoopRead(t, frame)
  \/ \E t \in 1..Len(threads) : LoopDispatch(t)
  \/ \E t \in 1..Len(threads) : LoopWrite(t, 0)

SpecLoop == InitSdlc /\ [][NextLoop]_vars

(***************************************************************************)
(* The SDLC loop under a fair scheduler: a thread that can take its next   *)
(* step takes it eventually, and a read returns as long as the device has  *)
(* a frame to deliver.  The controller sends load switch driver frames and *)
(* the device's write succeeds.                                            *)
(***************************************************************************)
FairFrames == { <<16, 131, 0, 195>> \o Fill(11, 0) \o <<128>> }

NextFair ==
  \/ enable_sdlc
  \/ disable_sdlc
  \/ \E t \in 1..Len(threads) : LoopWhile(t)
  \/ \E t \in 1..Len(threads) : \E frame \in FairFrames : LoopRead(t, frame)
  \/ \E t \in 1..Len(threads) : LoopDispatch(t)
  \/ \E t \in 1..Len(threads) : LoopWrite(t, 0)

\* The next step of thread t, wherever it is in the loop.
LoopStep(t) ==
  \/ LoopWhile(t)
  \/ \E frame \in FairFrames : LoopRead(t, frame)
  \/ LoopDispatch(t)
  \/ LoopWrite(t, 0)

Fairness ==
  \A t \in 1..MaxThreads : WF_vars(t <= Len(threads) /\ LoopStep(t))

SpecFair == InitSdlc /\ [][NextFair]_vars /\ Fairness

(***************************************************************************)
(* HilsCI: configuration and wirings.  A configuration document is a       *)
(* record: whether the file can be loaded, what select_node finds for the  *)
(* compatibility attribute, the simulation step in hundredths of a second, *)
(* and for the channels that have a wiring node the list of its turning    *)
(* movements <<approach, turn>> or of its sensor ids.  A verification      *)
(* function is a std::function: empty, or holding the set of signal or     *)
(* sensor ids that the simulator's network has.                            *)
(***************************************************************************)
num_detector_channels == 64

NoFunc == [callable |-> FALSE]

VerifyFunc(existing) == [callable |-> TRUE, existing |-> existing]

\* a_func && a_func(channel(), id)
Verified(a_func, id) == a_func.callable /\ id \in a_func.existing

\* The loop over the children of one wiring node: an entry that is verified
\* is appended to the channel's list; any other entry sets result to
\* !a_func and the loop goes on with the next entry.
RECURSIVE LoadChannel(_, _, _, _, _)
LoadChannel(entries, k, a_func, list, result) ==
  IF k > Len(entries) THEN [list |-> list, result |-> result]
  ELSE IF Verified(a_func, entries[k].id)
       THEN LoadChannel(entries, k + 1, a_func, Append(list, entries[k].entry), result)
       ELSE LoadChannel(entries, k + 1, a_func, list, ~a_func.callable)

\* for_each over the wirings of the channels I..J, in channel order: a
\* channel is skipped once result is false, and a channel without a node in
\* the configuration keeps its list.
RECURSIVE LoadWirings(_, _, _, _, _)
LoadWirings(I, J, nodes, a_func, st) ==
  IF I > J THEN st
  ELSE IF I = J
       THEN IF ~st.result \/ I \notin DOMAIN nodes THEN st
            ELSE The({ [wirings |-> [st.wirings EXCEPT ![I] = c.list], result |-> c.result] :
                         c \in { LoadChannel(nodes[I], 1, a_func, st.wirings[I], st.result) } })
       ELSE LET M == (I + J) \div 2
            IN  The({ LoadWirings(M + 1, J, nodes, a_func, first) :
                        first \in { LoadWirings(I, M, nodes, a_func, st) } })

\* bool load_config(pugi::xml_document&, VerifyLoadswitchWiringFunc): the
\* function verifies the approach of a turning movement.
load_config_loadswitch(a_config, a_func, ls_wirings) ==
  LET nodes == [I \in DOMAIN a_config.loadswitch_wiring |->
                  [k \in 1..Len(a_config.loadswitch_wiring[I]) |->
                     [id |-> a_config.loadswitch_wiring[I][k][1],
                      entry |-> a_config.loadswitch_wiring[I][k]]]]
  IN  LoadWirings(1, num_loadswitches, nodes, a_func,
                  [wirings |-> ls_wirings, result |-> TRUE])

\* bool load_config(pugi::xml_document&, VerifyDetectorWiringFunc): the
\* function verifies the sensor id.
load_config_detector(a_config, a_func, det_wirings) ==
  LET nodes == [I \in DOMAIN a_config.detector_wiring |->
                  [k \in 1..Len(a_config.detector_wiring[I]) |->
                     [id |-> a_config.detector_wiring[I][k],
                      entry |-> a_config.detector_wiring[I][k]]]]
  IN  LoadWirings(1, num_detector_channels, nodes, a_func,
                  [wirings |-> det_wirings, result |-> TRUE])

\* bool load_config(const fs::path&, const VerifyFuncGroup&): opened is the
\* error code that the construction of the serial device leaves.  The
\* operands of && are evaluated from the left until one is false.
load_config(a_config, verify_simstep, verify_loadswitch_wiring, verify_detector_wiring, opened, tbl, ec, ls_wirings, det_wirings) ==
  IF ~a_config.loadable
  THEN [result |-> FALSE, variable |-> tbl, ec_ |-> ec,
        loadswitch_wirings_ |-> ls_wirings, detector_wirings_ |-> det_wirings]
  ELSE LET compat == load_mmu16_channel_compatibility(a_config.channel_compatibility, tbl)
           step == a_config.simulation_step
           device_ready == opened = 0
           simstep_ok == ~verify_simstep.callable \/ step \in verify_simstep.existing
           ls == IF device_ready /\ simstep_ok
                 THEN load_config_loadswitch(a_config, verify_loadswitch_wiring, ls_wirings)
                 ELSE [wirings |-> ls_wirings, result |-> FALSE]
           det == IF ls.result
                  THEN load_config_detector(a_config, verify_detector_wiring, det_wirings)
                  ELSE [wirings |-> det_wirings, result |-> FALSE]
       IN  [result |-> det.result, variable |-> compat.variable, ec_ |-> opened,
            loadswitch_wirings_ |-> ls.wirings, detector_wirings_ |-> det.wirings]

VehicleDetCall(I) == <<"io::input", "VehicleDetCall", I>>

\* activated = activated || a_process_detector_wiring(channel(), sensor_id),
\* over the sensor ids from the k-th on.
RECURSIVE Activated(_, _, _, _)
Activated(sensor_ids, k, a_process_detector_wiring, activated) ==
  IF k > Len(sensor_ids) THEN activated
  ELSE Activated(sensor_ids, k + 1, a_process_detector_wiring,
                 activated \/ sensor_ids[k] \in a_process_detector_wiring)

\* The first for_each of process_wirings with a channel that has no sensor
\* ids left as it is.
DetectorCallsKeepingUnwired(det_wirings, a_process_detector_wiring, tbl) ==
  [tbl EXCEPT !["io::input"]["VehicleDetCall"] =
     [I \in DOMAIN @ |->
        IF det_wirings[I] = <<>> THEN @[I]
        ELSE IF Activated(det_wirings[I], 1, a_process_detector_wiring, FALSE)
             THEN On ELSE Off]]

\* The first for_each of process_wirings: every channel stores its own
\* variable, so the stores of the 64 channels are made at once.
DetectorCalls(det_wirings, a_process_detector_wiring, tbl) ==
  [tbl EXCEPT !["io::input"]["VehicleDetCall"] =
     [I \in DOMAIN @ |->
        IF Activated(det_wirings[I], 1, a_process_detector_wiring, FALSE)
        THEN On ELSE Off]]

\* The second for_each of process_wirings calling the callback for the first
\* turning movement of each signal head only.
RECURSIVE LoadswitchCallsFirstMovementOnly(_, _, _)
LoadswitchCallsFirstMovementOnly(I, ls_wirings, tbl) ==
  IF I > num_loadswitches THEN <<>>
  ELSE [k \in 1..(IF ls_wirings[I] = <<>> THEN 0 ELSE 1) |->
          [channel |-> I, state |-> state(I, tbl),
           approach |-> ls_wirings[I][k][1], turn |-> ls_wirings[I][k][2]]]
       \o LoadswitchCallsFirstMovementOnly(I + 1, ls_wirings, tbl)

\* The second for_each of process_wirings for the channels from I on: the
\* calls of a_process_loadswitch_wiring, in order.
RECURSIVE LoadswitchCalls(_, _, _)
LoadswitchCalls(I, ls_wirings, tbl) ==
  IF I > num_loadswitches THEN <<>>
  ELSE [k \in 1..Len(ls_wirings[I]) |->
          [channel |-> I, state |-> state(I, tbl),
           approach |-> ls_wirings[I][k][1], turn |-> ls_wirings[I][k][2]]]
       \o LoadswitchCalls(I + 1, ls_wirings, tbl)

\* process_wirings: the detector callback is the set of the sensor ids for
\* which it returns true.
process_wirings(a_process_detector_wiring, tbl, ls_wirings, det_wirings) ==
  LET detected == DetectorCalls(det_wirings, a_process_detector_wiring, tbl)
  IN  [variable |-> detected, calls |-> LoadswitchCalls(1, ls_wirings, detected)]

(***************************************************************************)
(* TsmCI, the controller interface of the simulator.  The simulator's      *)
(* application object gives the step size and the signals and sensors of   *)
(* its network; the sensors that are activated change from one tick to the *)
(* next.                                                                   *)
(***************************************************************************)
MaxStarts == 2

StepSize == 10
Signals == {1, 2}
Sensors == {101, 102, 103}

Right == 0
Through == 1
Left == 2
UTurn == 3

Document(compat, step, ls, det) ==
  [loadable |-> TRUE, channel_compatibility |-> compat, simulation_step |-> step,
   loadswitch_wiring |-> ls, detector_wiring |-> det]

GoodLoadswitchNodes ==
  (1 :> << <<1, Through>>, <<1, Left>> >>) @@ (2 :> <<>>) @@ (16 :> << <<2, Right>> >>)

GoodDetectorNodes ==
  (1 :> <<101, 102>>) @@ (2 :> <<>>) @@ (64 :> <<103>>)

Configurations ==
  { \* a file that cannot be loaded
    [loadable |-> FALSE],
    \* a configuration that passes every verification
    Document(NoAttribute, 10, GoodLoadswitchNodes, GoodDetectorNodes),
    \* a simulation step that is not the simulator's
    Document(NoAttribute, 100, GoodLoadswitchNodes, GoodDetectorNodes),
    \* a loadswitch wired to a signal that does not exist, between two that do
    Document(NoAttribute, 10,
             (1 :> << <<1, Through>>, <<7, Left>>, <<2, UTurn>> >>) @@ (16 :> << <<2, Right>> >>),
             GoodDetectorNodes),
    \* a detector wired to a sensor that does not exist, between two that do
    Document(NoAttribute, 10, GoodLoadswitchNodes,
             (1 :> <<101, 999, 102>>) @@ (64 :> <<103>>)) }

\* The effect of enable_sdlc() called by SimulationStarted.
enable_sdlc_call(ec, enabled, thr) ==
  IF ec = 0 /\ ~enabled
  THEN [sdlc_enabled_ |-> TRUE,
        threads |-> Append(thr, [pc |-> "while", count |-> 0,
                                 success |-> FALSE, size |-> 0])]
  ELSE [sdlc_enabled_ |-> enabled, threads |-> thr]

\* initok_ = load_config(dir_) && enable_sdlc()
SimulationStarted(a_config, opened) ==
  /\ nstarts < MaxStarts
  /\ nstarts' = nstarts + 1
  /\ \E lc \in { load_config(a_config, VerifyFunc({StepSize}), VerifyFunc(Signals),
                             VerifyFunc(Sensors), opened, variable, ec_,
                             loadswitch_wirings_, detector_wirings_) } :
     \E en \in { IF lc.result
                 THEN enable_sdlc_call(lc.ec_, sdlc_enabled_, threads)
                 ELSE [sdlc_enabled_ |-> sdlc_enabled_, threads |-> threads] } :
       /\ Len(en.threads) <= MaxThreads
       /\ variable' = lc.variable
       /\ ec_' = lc.ec_
       /\ loadswitch_wirings_' = lc.loadswitch_wirings_
       /\ detector_wirings_' = lc.detector_wirings_
       /\ sdlc_enabled_' = en.sdlc_enabled_
       /\ threads' = en.threads
       /\ initok_' = (lc.result /\ en.sdlc_enabled_)
       /\ ret' = [op |-> "SimulationStarted", a_config |-> a_config,
                  load_config |-> lc.result,
                  result |-> IF lc.result /\ en.sdlc_enabled_ THEN "S_OK" ELSE "E_ABORT"]
  /\ UNCHANGED <<buffer, ncalls, nreads>>

\* An Advance that processes the wirings whatever initok_ is.
AdvanceWithoutInitok(activated) ==
  /\ \E pw \in { process_wirings(activated, variable, loadswitch_wirings_,
                                 detector_wirings_) } :
       /\ variable' = pw.variable
       /\ ret' = [op |-> "Advance", activated |-> activated, result |-> "S_OK",
                  calls |-> pw.calls]
  /\ UNCHANGED <<buffer, ncalls, sdlc_enabled_, ec_, threads, nreads, wirings>>

\* Advance: activated is the set of the sensors whose IsActivated is true.
Advance(activated) ==
  /\ IF initok_
     THEN \E pw \in { process_wirings(activated, variable, loadswitch_wirings_,
                                      detector_wirings_) } :
            /\ variable' = pw.variable
            /\ ret' = [op |-> "Advance", activated |-> activated, result |-> "S_OK",
                       calls |-> pw.calls]
     ELSE /\ variable' = variable
          /\ ret' = [op |-> "Advance", activated |-> activated, result |-> "E_ABORT",
                     calls |-> <<>>]
  /\ UNCHANGED <<buffer, ncalls, sdlc_enabled_, ec_, threads, nreads, wirings>>

\* SimulationStopped: if (initok_) disable_sdlc()
SimulationStopped ==
  /\ sdlc_enabled_' = (IF initok_ THEN FALSE ELSE sdlc_enabled_)
  /\ ret' = [op |-> "SimulationStopped"]
  /\ UNCHANGED <<variable, buffer, ncalls, ec_, threads, nreads, wirings>>

NextTsm ==
  \/ \E a_config \in Configurations, opened \in {0, 126} :
       SimulationStarted(a_config, opened)
  \/ \E activated \in {{}, {101}, {102, 103}} : Advance(activated)
  \/ SimulationStopped
  \/ \E T \in {VehicleDetCall(1), VehicleDetCall(2)} : AssignVariable(T, On)

SpecTsm == Init /\ [][NextTsm]_vars

(***************************************************************************)
(* Decoding of received frames: operator<< applied to arrays of the        *)
(* frame's declared length.                                                *)
(***************************************************************************)
\* A frame of the given type whose payload bytes are given one by one.
FrameOf(id, payload) ==
  ArrayOf(<<FrameType(id).address, 131, id>> \o payload, 0)

\* Payload of a type 0 frame: bytes 3..15.
LoadSwitchPayload(byte3, others, byte15) ==
  <<byte3>> \o Fill(11, others) \o <<byte15>>

\* The array of the test "MMU variable LoadSwitchDriverFrame can be parsed".
LoadSwitchFixture == FrameOf(0, LoadSwitchPayload(195, 0, 128))

LoadSwitchInputs ==
  { LoadSwitchFixture,
    FrameOf(0, LoadSwitchPayload(0, 0, 0)),
    FrameOf(0, LoadSwitchPayload(255, 255, 255)),
    FrameOf(0, LoadSwitchPayload(85, 85, 85)),
    FrameOf(0, LoadSwitchPayload(170, 170, 170)),
    FrameOf(0, LoadSwitchPayload(6, 0, 127)),
    FrameOf(0, LoadSwitchPayload(9, 153, 128)),
    FrameOf(0, LoadSwitchPayload(96, 102, 1)),
    FrameOf(0, LoadSwitchPayload(192, 48, 129)) }

\* The array of the test "Type 9 serial frame DateTimeBroadcastFrame can be
\* parsed".
DateTimeFixture == FrameOf(9, <<3, 18, 22, 17, 32, 0, 0, 1, 2>>)

DateTimeInputs ==
  { DateTimeFixture,
    FrameOf(9, <<0, 0, 0, 0, 0, 0, 0, 0, 0>>),
    FrameOf(9, <<12, 31, 99, 23, 59, 59, 9, 255, 255>>),
    FrameOf(9, <<1, 2, 3, 4, 5, 6, 7, 128, 64>>),
    FrameOf(9, <<255, 254, 253, 252, 251, 250, 249, 85, 170>>),
    FrameOf(9, <<2, 29, 24, 0, 0, 1, 5, 3, 0>>),
    FrameOf(9, <<7, 4, 76, 12, 30, 30, 3, 0, 129>>) }

\* frame << data, for the frame of the given type.
CallFrameIn(id, a_data_in) ==
  /\ \E t \in { FrameIn(FrameType(id), a_data_in, variable) } : variable' = t
  /\ ret' = [op |-> "operator<<", id |-> id, a_data_in |-> a_data_in]
  /\ UNCHANGED <<buffer, ncalls, hils>>

NextDecode ==
  \/ \E a_data_in \in LoadSwitchInputs : CallFrameIn(0, a_data_in)
  \/ \E a_data_in \in DateTimeInputs : CallFrameIn(9, a_data_in)

SpecDecode == Init /\ [][NextDecode]_vars

(***************************************************************************)
(* The frame elements by themselves: FrameBit<T, BitPos>, FrameByte<T,     *)
(* BytePos> and FrameWord<T, BytePos> applied to the shared buffer, at the *)
(* positions that the type 9 frame declares and at other positions.  No    *)
(* variable of the program has the value type Word and no frame has a      *)
(* FrameWord element, so the word elements refer to a Variable<Word, 0>.   *)
(***************************************************************************)
WordVariable == <<"vtc", "Variable<Word, 0>", 0>>

TfBiuPresence1 == <<"broadcast", "CuReportedTfBiuPresence", 1>>

Month == <<"broadcast", "CuReportedMonth", 0>>

CodecElements ==
  { FrameBit(TfBiuPresence1, 80), FrameBit(TfBiuPresence1, 31),
    FrameByte(Month, 3),
    FrameWord(WordVariable, 3), FrameWord(WordVariable, 62) }

\* Values of the variables of the elements.
CodecValues(T) ==
  IF T = WordVariable THEN {0, 4660, 65535}
  ELSE IF T = Month THEN {0, 18, 255}
  ELSE {Off, On}

\* The variables hold any of the values, the buffer is filled with zeros.
InitCodec ==
  /\ \E w \in CodecValues(WordVariable), m \in CodecValues(Month),
        b \in CodecValues(TfBiuPresence1) :
       variable = Store(Store(Store(
                    ZeroVariables @@ ("vtc" :> ("Variable<Word, 0>" :> (0 :> 0))),
                    WordVariable, w), Month, m), TfBiuPresence1, b)
  /\ buffer = ZeroBuffer
  /\ ret = NoCall
  /\ ncalls = 0
  /\ sdlc_enabled_ = FALSE
  /\ ec_ = 0
  /\ threads = <<>>
  /\ nreads = 0
  /\ initok_ = FALSE
  /\ loadswitch_wirings_ = [I \in 1..16 |-> <<>>]
  /\ detector_wirings_ = [I \in 1..64 |-> <<>>]
  /\ nstarts = 0

\* element >> buffer; ncalls counts the elements written.
CallElementOut(el) ==
  /\ ncalls < MaxCalls
  /\ buffer' = ElementGenerate(el, buffer, variable)
  /\ ncalls' = ncalls + 1
  /\ ret' = [op |-> "element >>", el |-> el]
  /\ UNCHANGED <<variable, hils>>

\* element << buffer; nreads counts the elements read.
CallElementIn(el) ==
  /\ nreads < MaxReads
  /\ variable' = ElementAssign(el, Span(buffer, max_sdlc_frame_bytesize), variable)
  /\ nreads' = nreads + 1
  /\ ret' = [op |-> "element <<", el |-> el]
  /\ UNCHANGED <<buffer, ncalls, sdlc_enabled_, ec_, threads, wirings>>

NextCodec ==
  \/ \E el \in CodecElements : CallElementOut(el)
  \/ \E el \in CodecElements : CallElementIn(el)
  \/ CallFrameIn(9, DateTimeFixture)

SpecCodec == InitCodec /\ [][NextCodec]_vars

(***************************************************************************)
(* The simulation thread calls state() while the thread of the SDLC loop   *)
(* is in Dispatch.  The decode cmd_frame << a_data_in is one atomic store  *)
(* per element, and state() may run between any two of them.  The thread   *)
(* record keeps the frame id, the element that comes next and the values   *)
(* of the variables before the decode.                                     *)
(***************************************************************************)
\* Type 10 frames whose byte 3 holds the pairs of bits of the red, yellow and
\* green driver of channel 1, and a type 11 frame.
OutputFrames ==
  { <<0, 131, 10, b>> \o Fill(7, 0) : b \in {0, 1, 3, 12, 48, 51} }
    \cup { <<1, 131, 11, 3>> \o Fill(7, 0) }

\* device_->read(serial::buffer), and Dispatch finds the command frame.
DispatchBegins(frame) ==
  /\ threads = <<>>
  /\ buffer' = [i \in 1..max_sdlc_frame_bytesize |->
                  IF i <= Len(frame) THEN frame[i] ELSE buffer[i]]
  /\ threads' = << [pc |-> "Assign", I |-> 1, id |-> frame[3],
                    count |-> Len(frame), before |-> variable] >>
  /\ ret' = [op |-> "read", thread |-> 1, count |-> Len(frame)]
  /\ UNCHANGED <<variable, ncalls, sdlc_enabled_, ec_, nreads, wirings>>

\* std::get<I>(m_frame_elements) << a_data_in
AssignElement ==
  /\ threads # <<>>
  /\ threads[1].pc = "Assign"
  /\ LET cmd_frame == FrameType(threads[1].id)
         I == threads[1].I
     IN  /\ variable' = ElementAssign(cmd_frame.m_frame_elements[I],
                                      Span(buffer, threads[1].count), variable)
         /\ threads' = [threads EXCEPT ![1].I = I + 1,
                                       ![1].pc = IF I = Len(cmd_frame.m_frame_elements)
                                                 THEN "Generate" ELSE "Assign"]
         /\ ret' = [op |-> "Assign", I |-> I]
  /\ UNCHANGED <<buffer, ncalls, sdlc_enabled_, ec_, nreads, wirings>>

\* res_frame >> serial::buffer, and the response is written to the device.
DispatchEnds ==
  /\ threads # <<>>
  /\ threads[1].pc = "Generate"
  /\ LET res_frame ==
           frame_maps[CHOOSE I \in 1..frame_maps_size :
                        frame_maps[I][1].id = threads[1].id][2]
     IN  \E out \in { FrameOut(res_frame, buffer, variable) } : buffer' = out
  /\ threads' = <<>>
  /\ ret' = [op |-> "Generate", id |-> threads[1].id]
  /\ UNCHANGED <<variable, ncalls, sdlc_enabled_, ec_, nreads, wirings>>

NextRace ==
  \/ \E frame \in OutputFrames : DispatchBegins(frame)
  \/ AssignElement
  \/ DispatchEnds
  \/ \E I \in {1, 9} : Call_state(I)

SpecRace == Init /\ [][NextRace]_vars

(***************************************************************************)
(* A device model that assigns status, input and compatibility variables   *)
(* and zeroes the compatibility matrix, and a caller that dispatches the   *)
(* MMU input status request (type 1) and the TF BIU 3 request (type 12),   *)
(* whose responses 129 and 140 carry the status and the inputs.  No frame  *)
(* names ChannelGreenWalkStatus<15>; the variable exists once a user of    *)
(* the library names it, as the device model does here.                    *)
(***************************************************************************)
GreenWalkStatus15 == <<"mmu", "ChannelGreenWalkStatus", 15>>

StatusVariables ==
  { <<"io::input", "RingRedRest", 1>>, <<"io::input", "RingRedRest", 2>>,
    <<"mmu", "ChannelGreenWalkStatus", 14>>, GreenWalkStatus15,
    <<"mmu", "ChannelGreenWalkStatus", 16>>,
    ChannelCompatibilityStatus(2, 3), ChannelCompatibilityStatus(15, 16) }

StatusInputs ==
  { ArrayOf(<<16, 131, 1>>, 0), ArrayOf(<<2, 131, 12>>, 0) }

InitStatus ==
  /\ variable = [ZeroVariables EXCEPT !["mmu"]["ChannelGreenWalkStatus"] = @ @@ (15 :> 0)]
  /\ buffer = ZeroBuffer
  /\ ret = NoCall
  /\ ncalls = 0
  /\ sdlc_enabled_ = FALSE
  /\ ec_ = 0
  /\ threads = <<>>
  /\ nreads = 0
  /\ initok_ = FALSE
  /\ loadswitch_wirings_ = [I \in 1..16 |-> <<>>]
  /\ detector_wirings_ = [I \in 1..64 |-> <<>>]
  /\ nstarts = 0

NextStatus ==
  \/ \E T \in StatusVariables, v \in {Off, On} : AssignVariable(T, v)
  \/ \E a_data_in \in StatusInputs : CallDispatch(a_data_in)
  \/ CallZeroOutMMU16ChannelCompatibility

SpecStatus == InitStatus /\ [][NextStatus]_vars

(***************************************************************************)
(* The simulator's ticks while the controller drives the load switches:    *)
(* simulations are started with configurations that are accepted, the      *)
(* drivers of channels 1 and 16 change between the ticks.                  *)
(***************************************************************************)
TickConfigurations ==
  { Document(NoAttribute, 10, GoodLoadswitchNodes, GoodDetectorNodes),
    Document(NoAttribute, 10,
             (1 :> << <<2, UTurn>> >>) @@ (3 :> << <<1, Right>>, <<1, Right>> >>),
             (2 :> <<102>>)) }

TickDrivers ==
  { LoadswitchDriver(1)[1], LoadswitchDriver(1)[3], LoadswitchDriver(16)[2] }

NextTick ==
  \/ \E a_config \in TickConfigurations : SimulationStarted(a_config, 0)
  \/ \E activated \in {{}, {102, 103}} : Advance(activated)
  \/ \E T \in TickDrivers, v \in {Off, On} : AssignVariable(T, v)

SpecTick == Init /\ [][NextTick]_vars

(***************************************************************************)
(* A caller that dispatches every command of the table, with all payload   *)
(* bits set and with all payload bits clear.                               *)
(***************************************************************************)
OutputInputs ==
  { CommandOf(id, fill) : id \in CommandFrameIDs, fill \in {0, 255} }

NextOutputs == \E a_data_in \in OutputInputs : CallDispatch(a_data_in)

SpecOutputs == Init /\ [][NextOutputs]_vars

(***************************************************************************)
(* Properties of the dispatcher                                            *)
(***************************************************************************)
\* The response frame paired with the command frame of the given id.
ResponseOf(id) ==
  frame_maps[CHOOSE I \in 1..frame_maps_size : frame_maps[I][1].id = id][2]

\* C1: an input of at least 3 bytes whose byte 2 is the id of a command frame
\* of the table (0, 1, 3, 10-13, 20-27) is matched, whatever its bytes 0 and
\* 1 are, and the response has the paired response frame's declared length,
\* its address in byte 0, 0x83 in byte 1 and its id in byte 2; the command
\* ids of the table are pairwise distinct.
C1_DispatchMatchesByFrameId ==
  /\ CommandFrameIDs = {0, 1, 3} \cup (10..13) \cup (20..27)
  /\ \A I, J \in 1..frame_maps_size :
       frame_maps[I][1].id = frame_maps[J][1].id => I = J
  /\ (ret.op = "Dispatch" /\ ret.a_data_in.size >= 3
        /\ At(ret.a_data_in, 2) \in CommandFrameIDs)
       => /\ ret.success
          /\ LET res_frame == ResponseOf(At(ret.a_data_in, 2))
             IN  /\ Len(ret.response_data) = res_frame.bytesize
                 /\ ret.response_data[1] = res_frame.address
                 /\ ret.response_data[2] = 131
                 /\ ret.response_data[3] = res_frame.id

\* A command of the table was dispatched under a foreign address and control.
C1_Witness ==
  /\ ret.op = "Dispatch" /\ ret.success
  /\ ret.a_data_in.size >= 3
  /\ At(ret.a_data_in, 0) = 85 /\ At(ret.a_data_in, 1) = 0
  /\ At(ret.a_data_in, 2) = 27
  /\ Len(ret.response_data) = 19

\* C2: a call of Dispatch whose input has a byte 2 that is no command frame id
\* of the table reports no match, changes no variable and leaves the buffer
\* as it was.
C2_UnmatchedDispatchChangesNothing ==
  [][ (ret'.op = "Dispatch" /\ ncalls' = ncalls + 1
         /\ At(ret'.a_data_in, 2) \notin CommandFrameIDs)
        => (~ret'.success /\ variable' = variable /\ buffer' = buffer) ]_vars

\* An unmatched call was made when variables and buffer were not all zero.
C2_Witness ==
  /\ ret.op = "Dispatch" /\ ~ret.success
  /\ At(ret.a_data_in, 2) \notin CommandFrameIDs
  /\ variable # ZeroVariables
  /\ buffer # ZeroBuffer

\* The bit at the absolute bit position pos of a frame.
FrameBitAt(frame, pos) == BitAnd(frame[(pos \div 8) + 1], pos % 8)

\* The channel-major linear offset of the pair (i, j): the pairs of channel 1
\* come first, (1, 2) to (1, 16), then those of channel 2, and so on.
PairOffset(i, j) ==
  Cardinality({ q \in (1..15) \X (2..16) :
                  q[1] < q[2] /\ (q[1] < i \/ (q[1] = i /\ q[2] < j)) })

\* C4: Dispatch of a type-3 command returns a type-131 response of 23 bytes
\* whose bit 24 + k, k being the channel-major offset of the pair (i, j), is
\* the value of ChannelCompatibilityStatus<i, j>; with only (1, 2) On byte 3
\* is 0x01 and byte 4 is 0x00, with (1, 5) and (1, 6) the only pairs of
\* channel 1 that are On byte 3 is 0x18; and the command changes no variable.
C4_ProgrammingResponseCarriesCompatibility ==
  /\ [](ret.op = "Dispatch" /\ At(ret.a_data_in, 2) = 3
          => /\ ret.success
             /\ Len(ret.response_data) = 23
             /\ SubSeq(ret.response_data, 1, 3) = <<16, 131, 131>>
             /\ \A i \in 1..15 : \A j \in (i + 1)..16 :
                  FrameBitAt(ret.response_data, 24 + PairOffset(i, j))
                    = Value(variable, ChannelCompatibilityStatus(i, j))
             /\ { q \in (1..15) \X (2..16) : q[1] < q[2] /\
                     Value(variable, ChannelCompatibilityStatus(q[1], q[2])) = On }
                   = {<<1, 2>>}
                  => ret.response_data[4] = 1 /\ ret.response_data[5] = 0
             /\ { j \in 2..16 : Value(variable, ChannelCompatibilityStatus(1, j)) = On }
                   = {5, 6}
                  => ret.response_data[4] = 24)
  /\ [][ (ret'.op = "Dispatch" /\ ncalls' = ncalls + 1 /\ At(ret'.a_data_in, 2) = 3)
          => variable' = variable ]_vars

\* A type-3 command was dispatched when (1, 5) and (1, 6) were the only pairs
\* of channel 1 that were On.
C4_Witness ==
  /\ ret.op = "Dispatch" /\ At(ret.a_data_in, 2) = 3
  /\ { j \in 2..16 : Value(variable, ChannelCompatibilityStatus(1, j)) = On } = {5, 6}
  /\ ret.response_data[4] = 24

(***************************************************************************)
(* Properties of the MMU16 channel compatibility                           *)
(***************************************************************************)
ChannelPairs == { p \in (1..15) \X (2..16) : p[1] < p[2] }

\* The sum of 16 - k for k from 1 to i - 1.
SegmentStart(i) == ((i - 1) * (32 - i)) \div 2

BitIndex(i, j) == SegmentStart(i) + (j - i - 1)

Compatibility(tbl, i, j) == Value(tbl, ChannelCompatibilityStatus(i, j))

\* C5: the compatibility of the pair (i, j), 1 <= i < j <= 16, is bit
\* S(i) + (j - i - 1) of the 120-bit set, S(i) being the sum of 16 - k for k
\* from 1 to i - 1; the pairs and the bits 0..119 correspond one to one;
\* Set stores and Get reads every pair at that bit, Get after Set(b) yields b
\* and Set of what Get has yielded changes none of the variables.
C5_PackedBitIndex ==
  /\ { BitIndex(p[1], p[2]) : p \in ChannelPairs } = 0..119
  /\ Cardinality(ChannelPairs) = 120
  /\ ret.op = "SetMMU16ChannelCompatibility"
       => /\ \A p \in ChannelPairs :
               Compatibility(variable, p[1], p[2]) = ret.a_mmu16_comp[BitIndex(p[1], p[2])]
          /\ GetMMU16ChannelCompatibility(1, ZeroBitset(120), variable) = ret.a_mmu16_comp
  /\ ret.op = "GetMMU16ChannelCompatibility"
       => /\ \A p \in ChannelPairs :
               ret.a_mmu16_comp[BitIndex(p[1], p[2])] = Compatibility(variable, p[1], p[2])
          /\ SetMMU16ChannelCompatibility(1, ret.a_mmu16_comp, variable) = variable

\* Get has yielded a bitset that Set had stored, with bits of both values.
C5_Witness ==
  /\ ret.op = "GetMMU16ChannelCompatibility"
  /\ ret.a_mmu16_comp = BinaryCode(3)
  /\ Compatibility(variable, 1, 10) = On
  /\ Compatibility(variable, 1, 2) = Off

UpperHexDigits ==
  <<"0", "1", "2", "3", "4", "5", "6", "7", "8", "9", "A", "B", "C", "D", "E", "F">>

LowerHexDigits ==
  <<"0", "1", "2", "3", "4", "5", "6", "7", "8", "9", "a", "b", "c", "d", "e", "f">>

IsHexDigit(c) == \E v \in 0..15 : c \in {UpperHexDigits[v + 1], LowerHexDigits[v + 1]}

HexValue(c) == CHOOSE v \in 0..15 : c \in {UpperHexDigits[v + 1], LowerHexDigits[v + 1]}

IsHexString30(s) == Len(s) = 30 /\ \A k \in 1..30 : IsHexDigit(s[k])

\* C6: after Set of a string of 30 hex digits, of either case, the pair at bit
\* index k has bit k mod 4 of the digit that is k div 4 places from the right
\* end of the string: the least significant bit of the last digit is the pair
\* (1, 2).  With 00001020A020280202B02300A60218 the pairs (1, 5) and (1, 6)
\* are On and the pair (1, 2) is Off.
C6_HexStringRightmostBitIsPair12 ==
  (ret.op = "SetMMU16ChannelCompatibility_hexstr" /\ IsHexString30(ret.a_hexstr))
    => /\ \A p \in ChannelPairs :
            LET k == BitIndex(p[1], p[2])
            IN  Compatibility(variable, p[1], p[2])
                  = BitAnd(HexValue(ret.a_hexstr[30 - (k \div 4)]), k % 4)
       /\ ret.a_hexstr = TestHexString
            => /\ Compatibility(variable, 1, 5) = On
               /\ Compatibility(variable, 1, 6) = On
               /\ Compatibility(variable, 1, 2) = Off

\* The string of the tests has been set.
C6_Witness ==
  /\ ret.op = "SetMMU16ChannelCompatibility_hexstr"
  /\ ret.a_hexstr = TestHexString
  /\ Compatibility(variable, 1, 5) = On
  /\ Compatibility(variable, 9, 11) = On

\* C7: Set of a string whose length is not 30 changes the value of none of
\* the 120 compatibility variables.
C7_WrongLengthStringIsRejected ==
  [][ (ret'.op = "SetMMU16ChannelCompatibility_hexstr" /\ Len(ret'.a_hexstr) # 30)
        => \A p \in ChannelPairs :
             Compatibility(variable', p[1], p[2]) = Compatibility(variable, p[1], p[2]) ]_vars

\* C8: after the loader has found a compatibility attribute whose length is
\* not 30 it has logged an error and the matrix is the default pattern.
C8_WrongLengthConfigFallsBackToDefault ==
  (ret.op = "load_mmu16_channel_compatibility" /\ ret.a_config.xpath
     /\ Len(ret.a_config.value) # 30)
    => /\ ret.log = "error"
       /\ variable = SetDefaultMMU16ChannelCompatibility(variable)

DefaultPairs ==
  { <<1, 5>>, <<1, 6>>, <<1, 11>>, <<2, 5>>, <<2, 6>>, <<2, 9>>, <<2, 11>>,
    <<3, 7>>, <<3, 8>>, <<3, 12>>, <<4, 7>>, <<4, 8>>, <<4, 10>>, <<4, 12>>,
    <<5, 9>>, <<6, 9>>, <<6, 11>>, <<7, 10>>, <<8, 10>>, <<8, 12>>,
    <<9, 11>>, <<10, 12>> }

\* C9: after the loader has found no compatibility attribute, the pairs that
\* are On are exactly 1-5, 1-6, 1-11, 2-5, 2-6, 2-9, 2-11, 3-7, 3-8, 3-12,
\* 4-7, 4-8, 4-10, 4-12, 5-9, 6-9, 6-11, 7-10, 8-10, 8-12, 9-11 and 10-12,
\* every other pair is Off, and this is the matrix that Set of the string
\* 00001020A020280202B02300A60218 gives.
C9_MissingAttributeGivesDefault ==
  (ret.op = "load_mmu16_channel_compatibility" /\ ~ret.a_config.xpath)
    => /\ \A p \in ChannelPairs :
            Compatibility(variable, p[1], p[2]) = (IF p \in DefaultPairs THEN On ELSE Off)
       /\ Cardinality(DefaultPairs) = 22
       /\ Cardinality(ChannelPairs \ DefaultPairs) = 98
       /\ variable = SetMMU16ChannelCompatibility_hexstr(TestHexString, variable)
       /\ ret.log = "info"

\* The loader has found no attribute and has set the default pattern.
C9_Witness ==
  /\ ret.op = "load_mmu16_channel_compatibility" /\ ~ret.a_config.xpath
  /\ Compatibility(variable, 1, 5) = On
  /\ Compatibility(variable, 1, 2) = Off
  /\ Compatibility(variable, 15, 16) = Off

(***************************************************************************)
(* Properties of the loadswitch channels                                   *)
(***************************************************************************)
\* C10: state() of the loadswitch channel I, for every I in 1..16, is
\* determined by the green/walk, yellow/ped-clear and red/do-not-walk
\* io::output drivers of channel I: (On, Off, Off) is Green, (Off, On, Off)
\* is Yellow, (Off, Off, On) is Red and each of the five other combinations
\* is Blank.
C10_LoadswitchStateOfDrivers ==
  ret.op = "state"
    => LET g == Value(variable, <<"io::output", "ChannelGreenWalkDriver", ret.I>>)
           y == Value(variable, <<"io::output", "ChannelYellowPedClearDriver", ret.I>>)
           r == Value(variable, <<"io::output", "ChannelRedDoNotWalkDriver", ret.I>>)
       IN  /\ ret.I \in 1..16
           /\ (g = On /\ y = Off /\ r = Off) => ret.state = Green
           /\ (g = Off /\ y = On /\ r = Off) => ret.state = Yellow
           /\ (g = Off /\ y = Off /\ r = On) => ret.state = Red
           /\ (g = Off /\ y = Off /\ r = Off) => ret.state = Blank
           /\ (g = On /\ y = On /\ r = Off) => ret.state = Blank
           /\ (g = On /\ y = Off /\ r = On) => ret.state = Blank
           /\ (g = Off /\ y = On /\ r = On) => ret.state = Blank
           /\ (g = On /\ y = On /\ r = On) => ret.state = Blank

\* The state of channel 16 was taken with its green and red drivers On.
C10_Witness ==
  /\ ret.op = "state" /\ ret.I = 16 /\ ret.state = Blank
  /\ Value(variable, <<"io::output", "ChannelGreenWalkDriver", 16>>) = On
  /\ Value(variable, <<"io::output", "ChannelYellowPedClearDriver", 16>>) = Off
  /\ Value(variable, <<"io::output", "ChannelRedDoNotWalkDriver", 16>>) = On

(***************************************************************************)
(* Properties of the SDLC loop                                             *)
(***************************************************************************)
\* C3: in the loop started by enable_sdlc bytes are written to the serial
\* device only if Dispatch has reported a match for the frame read in the
\* iteration: when it has reported no match, nothing is transmitted.
C3_LoopWritesOnlyMatchedResponses ==
  ret.op = "write" => ret.success

(***************************************************************************)
(* Properties of the wirings                                               *)
(***************************************************************************)
\* C11: after every call of process_wirings the VehicleDetCall variable of
\* each detector channel 1..64 is the logical OR of the results of the
\* detector callback over the sensor ids of the channel, and Off for a
\* channel without sensor ids, whatever the variable held before.
C11_DetectorCallIsOrOfSensors ==
  (ret.op = "Advance" /\ ret.result = "S_OK")
    => \A c \in 1..64 :
         Value(variable, <<"io::input", "VehicleDetCall", c>>)
           = IF \E k \in 1..Len(detector_wirings_[c]) :
                   detector_wirings_[c][k] \in ret.activated
             THEN On ELSE Off

\* A tick has been processed with one of the two sensors of channel 1
\* activated and the sensor of channel 64 not.
C11_Witness ==
  /\ ret.op = "Advance" /\ ret.result = "S_OK" /\ ret.activated = {101}
  /\ detector_wirings_[1] = <<101, 102>>
  /\ detector_wirings_[2] = <<>>
  /\ detector_wirings_[64] = <<103>>
  /\ Value(variable, <<"io::input", "VehicleDetCall", 1>>) = On
  /\ Value(variable, <<"io::input", "VehicleDetCall", 64>>) = Off

(***************************************************************************)
(* Type 0 frame                                                            *)
(***************************************************************************)
\* The first bit of the pair of channel n in a type 0 frame: green drivers
\* from bit 24, yellow drivers from bit 56, red drivers from bit 88.
PairStart(base, n) == base + 2 * (n - 1)

\* C12: after decoding a 16-byte type 0 frame, for every channel n in 1..16
\* the green, yellow and red driver of the channel equal the bit at the higher
\* position of the channel's pair of bits, whatever the lower bit is, and
\* LoadSwitchFlash equals bit 7 of byte 15; with byte 3 = 0xC3, byte 15 = 0x80
\* and the other payload bytes zero, the green drivers 1 and 4 and
\* LoadSwitchFlash are On and the green drivers 2 and 3 are Off.
C12_LoadSwitchDriversTakeHigherBit ==
  (ret.op = "operator<<" /\ ret.id = 0 /\ ret.a_data_in.size = 16)
    => LET data == Bytes(ret.a_data_in)
       IN  /\ \A n \in 1..16 :
                /\ Value(variable, <<"mmu", "ChannelGreenWalkDriver", n>>)
                     = FrameBitAt(data, PairStart(24, n) + 1)
                /\ Value(variable, <<"mmu", "ChannelYellowPedClearDriver", n>>)
                     = FrameBitAt(data, PairStart(56, n) + 1)
                /\ Value(variable, <<"mmu", "ChannelRedDoNotWalkDriver", n>>)
                     = FrameBitAt(data, PairStart(88, n) + 1)
           /\ Value(variable, <<"mmu", "LoadSwitchFlash", 0>>)
                = BitAnd(data[15 + 1], 7)
           /\ (/\ data[3 + 1] = 195
               /\ data[15 + 1] = 128
               /\ \A k \in 4..14 : data[k + 1] = 0)
                => /\ Value(variable, <<"mmu", "ChannelGreenWalkDriver", 1>>) = On
                   /\ Value(variable, <<"mmu", "ChannelGreenWalkDriver", 4>>) = On
                   /\ Value(variable, <<"mmu", "LoadSwitchFlash", 0>>) = On
                   /\ Value(variable, <<"mmu", "ChannelGreenWalkDriver", 2>>) = Off
                   /\ Value(variable, <<"mmu", "ChannelGreenWalkDriver", 3>>) = Off

\* A type 0 frame has been decoded in which the pair of green driver 1 is
\* (lower 0, higher 1) and the pair of green driver 2 is (lower 1, higher 0):
\* green driver 1 is On and green driver 2 is Off.
C12_Witness ==
  /\ ret.op = "operator<<"
  /\ ret.id = 0
  /\ ret.a_data_in.size = 16
  /\ Bytes(ret.a_data_in)[3 + 1] = 6
  /\ Value(variable, <<"mmu", "ChannelGreenWalkDriver", 1>>) = On
  /\ Value(variable, <<"mmu", "ChannelGreenWalkDriver", 2>>) = Off
  /\ Value(variable, <<"mmu", "LoadSwitchFlash", 0>>) = Off

(***************************************************************************)
(* Content of a response                                                   *)
(***************************************************************************)
\* The bit positions that the elements of a frame declare.
DeclaredBits(a_frame) ==
  UNION { LET el == a_frame.m_frame_elements[k]
          IN  CASE el.kind = "FrameBit"  -> {el.pos}
                [] el.kind = "FrameByte" -> (8 * el.pos)..(8 * el.pos + 7)
                [] el.kind = "FrameWord" -> (8 * el.pos)..(8 * el.pos + 15)
          : k \in 1..Len(a_frame.m_frame_elements) }

\* What the shared buffer may hold before a call: zeros, ones, a command.
EarlierBuffers ==
  { ZeroBuffer, Fill(max_sdlc_frame_bytesize, 255),
    <<16, 131, 3>> \o Fill(max_sdlc_frame_bytesize - 3, 170) }

\* C13: every response returned by a matched Dispatch has all bits zero except
\* the three header bytes and the bit positions that the elements of the
\* response frame declare, and the bytes returned for an input and the values
\* of the variables are the same whatever the shared buffer held before the
\* call.
C13_ResponseIsZeroFilled ==
  /\ [](ret.op = "Dispatch" /\ ret.success
          => LET res == ResponseOf(At(ret.a_data_in, 2))
             IN  \A p \in 0..(8 * Len(ret.response_data) - 1) :
                   p \notin (0..23) \cup DeclaredBits(res)
                     => FrameBitAt(ret.response_data, p) = 0)
  /\ [][ret'.op = "Dispatch" /\ ret'.success
          => \A buf \in EarlierBuffers \cup {buffer} :
               \E r \in { Dispatch(1, ret'.a_data_in, variable, buf) } :
                 SubSeq(r.buffer, 1, r.size) = ret'.response_data]_vars

\* The second call of Dispatch was a type 1 command: its response 129 has a
\* zero payload, while the compatibility of channels 1 and 2 is On.
C13_Witness ==
  /\ ret.op = "Dispatch"
  /\ ret.success
  /\ ncalls = 2
  /\ ret.response_data[3] = 129
  /\ \A k \in 4..Len(ret.response_data) : ret.response_data[k] = 0
  /\ Value(variable, ChannelCompatibilityStatus(1, 2)) = On

(***************************************************************************)
(* Identity of a variable                                                  *)
(***************************************************************************)
\* ValueType<T>: Bit for the variables of FrameBit elements, Byte for those of
\* FrameByte elements, Word for those of FrameWord elements.
ValueType(T) ==
  The(UNION { { FrameType(id).m_frame_elements[k].kind :
                  k \in { j \in 1..Len(FrameType(id).m_frame_elements) :
                            FrameType(id).m_frame_elements[j].ref_var = T } } :
              id \in FrameTypeIDs })

\* The variables of the elements of a frame.
References(a_frame) ==
  { a_frame.m_frame_elements[k].ref_var : k \in 1..Len(a_frame.m_frame_elements) }

\* The last element of a frame that refers to the variable T.
LastReference(a_frame, T) ==
  a_frame.m_frame_elements[
    CHOOSE k \in 1..Len(a_frame.m_frame_elements) :
      /\ a_frame.m_frame_elements[k].ref_var = T
      /\ \A j \in (k + 1)..Len(a_frame.m_frame_elements) :
           a_frame.m_frame_elements[j].ref_var # T]

\* What a bit or byte element reads in the bytes of a frame.
ElementValue(el, data) ==
  IF el.kind = "FrameBit" THEN FrameBitAt(data, el.pos) ELSE data[el.pos + 1]

\* C14 (as stated): the identity of a variable is (domain, value type, index),
\* so two variables of the same domain, value type and index have the same
\* value, and a decode changes no variable whose identity no element of the
\* frame refers to.
C14_IdentityIsDomainValueTypeIndex ==
  /\ [](\A T1 \in Variables :
          \A T2 \in { U \in Variables : U[1] = T1[1] /\ U[3] = T1[3] } :
            ValueType(T1) = ValueType(T2)
              => Value(variable, T1) = Value(variable, T2))
  /\ [][ret'.op = "operator<<"
          => \A T \in Variables :
               (\A U \in References(FrameType(ret'.id)) :
                  ~(U[1] = T[1] /\ U[3] = T[3] /\ ValueType(U) = ValueType(T)))
                 => Value(variable', T) = Value(variable, T)]_vars

\* C14 (amended): the identity of a variable is its type, that is (domain,
\* name, index): after a decode every variable that an element of the frame
\* refers to has the value which the last element referring to it has read,
\* whichever element it is read through, and every variable that no element
\* of the frame refers to is unchanged.
C14_IdentityIsTheVariableType ==
  [][ret'.op = "operator<<"
       => LET a_frame == FrameType(ret'.id)
              data == Bytes(ret'.a_data_in)
          IN  \A T \in Variables :
                IF T \in References(a_frame)
                THEN Value(variable', T)
                       = ElementValue(LastReference(a_frame, T), data)
                ELSE Value(variable', T) = Value(variable, T)]_vars

\* A type 0 frame has been decoded after which the green driver of channel 1
\* is On and the yellow and red drivers of channel 1 are Off: three MMU bit
\* variables of index 1 that differ.
C14_Witness ==
  /\ ret.op = "operator<<"
  /\ ret.id = 0
  /\ Value(variable, <<"mmu", "ChannelGreenWalkDriver", 1>>) = On
  /\ Value(variable, <<"mmu", "ChannelYellowPedClearDriver", 1>>) = Off
  /\ Value(variable, <<"mmu", "ChannelRedDoNotWalkDriver", 1>>) = Off

(***************************************************************************)
(* Frame type of a response                                                *)
(***************************************************************************)
\* C15: for every command/response pair of the dispatch table, byte 2 of the
\* response returned by Dispatch is the frame type byte of the command plus
\* 128.
C15_ResponseTypeIsCommandTypePlus128 ==
  (ret.op = "Dispatch" /\ ret.success)
    => ret.response_data[2 + 1] = At(ret.a_data_in, 2) + 128

(***************************************************************************)
(* The threads of the SDLC loop                                            *)
(***************************************************************************)
\* The threads that are inside an iteration of the loop: reading, dispatching
\* or writing.
InLoop == { t \in 1..Len(threads) : threads[t].pc \in {"read", "Dispatch", "write"} }

\* C16: across any sequence of enable_sdlc and disable_sdlc calls, at most one
\* thread is executing the read / Dispatch / write loop at any time.
C16_AtMostOneLoopThread ==
  Cardinality(InLoop) <= 1

\* The device delivers no further frame: a read does not return.
ReadBlocks == nreads >= MaxReads

\* The position that follows a position of the loop while the flag is false.
AfterDisabled(pc) ==
  CASE pc = "read"     -> "Dispatch"
    [] pc = "Dispatch" -> "write"
    [] pc = "write"    -> "while"
    [] pc = "while"    -> "exited"
    [] pc = "exited"   -> "exited"

\* C17: after disable_sdlc, as long as enable_sdlc is not called, a thread
\* only moves forward from where it is through the rest of its iteration
\* (read, Dispatch, write, test of the flag) to its exit, so it makes at most
\* one further read, Dispatch and write; and it does exit, unless enable_sdlc
\* is called again or its read never returns.
C17_DisabledLoopFinishesItsIteration ==
  /\ [][(~sdlc_enabled_ /\ ~sdlc_enabled_')
          => \A t \in 1..Len(threads) :
               threads'[t].pc \in {threads[t].pc, AfterDisabled(threads[t].pc)}]_vars
  /\ \A t \in 1..MaxThreads :
       (t <= Len(threads) /\ ~sdlc_enabled_)
         ~> \/ sdlc_enabled_
            \/ t <= Len(threads) /\ threads[t].pc = "exited"
            \/ t <= Len(threads) /\ threads[t].pc = "read" /\ ReadBlocks

\* disable_sdlc has returned and a thread has since dispatched a load switch
\* driver frame: the flag is false, the green driver of channel 1 is On and
\* the shared buffer holds the response 128.
C17_Witness ==
  /\ ~sdlc_enabled_
  /\ ret.op = "loop Dispatch"
  /\ ret.success
  /\ Value(variable, <<"mmu", "ChannelGreenWalkDriver", 1>>) = On
  /\ buffer[3] = 128

(***************************************************************************)
(* Failed initialisation                                                   *)
(***************************************************************************)
\* C18: a SimulationStarted whose load_config fails (file not loadable,
\* device not ready, simulation step not verified, a wiring entry rejected)
\* returns failure, leaves initok_ false and starts no thread; while initok_
\* is false an Advance returns failure, calls no wiring callback and changes
\* no variable; and initok_ is changed by SimulationStarted only.
C18_FailedStartProcessesNoWiring ==
  /\ []((ret.op = "SimulationStarted" /\ ~ret.load_config)
          => (ret.result = "E_ABORT" /\ ~initok_))
  /\ [][(ret'.op = "SimulationStarted" /\ ret'.result = "E_ABORT")
          => (threads' = threads /\ sdlc_enabled_' = sdlc_enabled_)]_vars
  /\ [][(~initok_ /\ ret'.op = "Advance")
          => /\ ret'.result = "E_ABORT"
             /\ ret'.calls = <<>>
             /\ variable' = variable]_vars
  /\ [][ret'.op # "SimulationStarted" => initok_' = initok_]_vars

\* An Advance with no sensor activated has failed after a SimulationStarted
\* that rejected the second wiring entry of loadswitch 1: the entries before
\* and after the rejected one are in the wirings, no thread exists, and the
\* detector call of channel 1, set On before, is still On.
C18_Witness ==
  /\ ret.op = "Advance"
  /\ ret.result = "E_ABORT"
  /\ ret.activated = {}
  /\ ~initok_
  /\ loadswitch_wirings_[1] = << <<1, Through>>, <<2, UTurn>> >>
  /\ loadswitch_wirings_[16] = <<>>
  /\ threads = <<>>
  /\ Value(variable, VehicleDetCall(1)) = On

(***************************************************************************)
(* Frame element codec                                                     *)
(***************************************************************************)
\* Bit k of a byte, bit 0 being the least significant.
BitOf(byte, k) == (byte \div 2 ^ k) % 2

\* What the element el reads in the bytes of a buffer.
Decoded(el, bytes) ==
  CASE el.kind = "FrameBit"  -> BitOf(bytes[(el.pos \div 8) + 1], el.pos % 8)
    [] el.kind = "FrameByte" -> bytes[el.pos + 1]
    [] el.kind = "FrameWord" -> bytes[el.pos + 1] + 256 * bytes[el.pos + 2]

\* The bytes of a buffer after the element el has written the value v.
Encoded(el, bytes, v) ==
  CASE el.kind = "FrameBit"  ->
         [bytes EXCEPT ![(el.pos \div 8) + 1] =
            IF v = On /\ BitOf(@, el.pos % 8) = 0 THEN @ + 2 ^ (el.pos % 8) ELSE @]
    [] el.kind = "FrameByte" -> [bytes EXCEPT ![el.pos + 1] = v]
    [] el.kind = "FrameWord" -> [bytes EXCEPT ![el.pos + 1] = v % 256,
                                              ![el.pos + 2] = v \div 256]

\* C19: a bit element at position p decodes bit (p mod 8) of byte (p div 8),
\* bit 0 being the least significant, and its encode ORs the variable into
\* that bit; a byte element copies byte p; a word element has its low byte at
\* p and its high byte at p + 1; decoding a type 9 frame stores bytes 3..9 as
\* month, day, year, hour, minutes, seconds and tenths and bit k-1 of bytes 10
\* and 11 as the presence of TF BIU k and of detector BIU k; and for every
\* element and value, the encode into a zeroed buffer followed by the decode
\* at the same position restores the value of the variable.
C19_ElementCodec ==
  /\ [][ret'.op = "element <<"
          => /\ Value(variable', ret'.el.ref_var) = Decoded(ret'.el, buffer)
             /\ buffer' = buffer]_vars
  /\ [][ret'.op = "element >>"
          => /\ buffer' = Encoded(ret'.el, buffer, Value(variable, ret'.el.ref_var))
             /\ variable' = variable]_vars
  /\ []((ret.op = "operator<<" /\ ret.id = 9)
          => LET data == Bytes(ret.a_data_in)
                 broadcast(name, index) == Value(variable, <<"broadcast", name, index>>)
             IN  /\ broadcast("CuReportedMonth", 0) = data[3 + 1]
                 /\ broadcast("CuReportedDay", 0) = data[4 + 1]
                 /\ broadcast("CuReportedYear", 0) = data[5 + 1]
                 /\ broadcast("CuReportedHour", 0) = data[6 + 1]
                 /\ broadcast("CuReportedMinutes", 0) = data[7 + 1]
                 /\ broadcast("CuReportedSeconds", 0) = data[8 + 1]
                 /\ broadcast("CuReportedTenthsOfSeconds", 0) = data[9 + 1]
                 /\ \A k \in 1..8 :
                      /\ broadcast("CuReportedTfBiuPresence", k) = BitOf(data[10 + 1], k - 1)
                      /\ broadcast("CuReportedDrBiuPresence", k) = BitOf(data[11 + 1], k - 1))
  /\ [](\A el \in CodecElements :
          \A other \in CodecValues(el.ref_var) :
            \E out \in { ElementGenerate(el, ZeroBuffer, variable) } :
              Value(ElementAssign(el, Span(out, max_sdlc_frame_bytesize),
                                  Store(variable, el.ref_var, other)),
                    el.ref_var)
                = Value(variable, el.ref_var))

\* The word 4660 = 0x1234 has been written at byte 3 and the byte element at
\* byte 3 has read its low byte 0x34 = 52 into the month.
C19_Witness ==
  /\ ret.op = "element <<"
  /\ ret.el = FrameByte(Month, 3)
  /\ Value(variable, WordVariable) = 4660
  /\ buffer[3 + 1] = 52
  /\ buffer[4 + 1] = 18
  /\ Value(variable, Month) = 52

(***************************************************************************)
(* state() during a decode                                                 *)
(***************************************************************************)
\* C20: a state() evaluated while the SDLC thread is decoding a type 10 or
\* type 11 frame returns Green, Yellow or Red only if that is the indication
\* of the channel's drivers before the decode or after it.
C20_StateDuringDecodeIsOldOrNewOrBlank ==
  [][(/\ ret'.op = "state"
      /\ threads # <<>>
      /\ threads[1].pc = "Assign"
      /\ ret'.state # Blank)
       => \E new \in { FrameIn(FrameType(threads[1].id),
                               Span(buffer, threads[1].count),
                               threads[1].before) } :
            ret'.state \in { state(ret'.I, threads[1].before), state(ret'.I, new) }]_vars

(***************************************************************************)
(* Reads of the input                                                      *)
(***************************************************************************)
\* The input with the same bytes and the same size, the memory behind them
\* holding the byte behind.
WithBehind(a_data_in, behind) == ArrayOf(Bytes(a_data_in), behind)

\* C21: Dispatch and the decode it performs read the input at no index greater
\* than or equal to its size: an input of fewer than 3 bytes is not matched,
\* and whether an input is matched and what the decode stores are the same
\* whatever lies in memory behind the bytes of the input.
C21_DispatchReadsWithinTheInput ==
  [][ret'.op = "Dispatch"
       => /\ ret'.a_data_in.size < 3 => ~ret'.success
          /\ \A behind \in {0, 255} :
               \E r \in { Dispatch(1, WithBehind(ret'.a_data_in, behind), variable, buffer) } :
                 /\ r.success = ret'.success
                 /\ r.variable = variable']_vars

(***************************************************************************)
(* Elements declared at the same bit position                              *)
(***************************************************************************)
\* C22: in the response 140 that answers the type 12 command, bit 0x1E (bit 6
\* of byte 3) is On exactly if RingRedRest<1> or RingRedRest<2> is On, the two
\* elements being declared at that position, and bit 0x1F is 0.
C22_RingRedRestSharesBit30 ==
  /\ { k \in 1..Len(TfBiu03_InputFrame.m_frame_elements) :
         TfBiu03_InputFrame.m_frame_elements[k].pos = 30 } = {1, 2}
  /\ TfBiu03_InputFrame.m_frame_elements[1].ref_var = <<"io::input", "RingRedRest", 1>>
  /\ TfBiu03_InputFrame.m_frame_elements[2].ref_var = <<"io::input", "RingRedRest", 2>>
  /\ (ret.op = "Dispatch" /\ ret.success /\ At(ret.a_data_in, 2) = 12)
       => /\ FrameBitAt(ret.response_data, 30)
               = IF \/ Value(variable, <<"io::input", "RingRedRest", 1>>) = On
                    \/ Value(variable, <<"io::input", "RingRedRest", 2>>) = On
                 THEN 1 ELSE 0
          /\ FrameBitAt(ret.response_data, 31) = 0

\* A response 140 whose bit 0x1E is 1 while RingRedRest<1> is On and
\* RingRedRest<2> is Off.
C22_Witness ==
  /\ ret.op = "Dispatch"
  /\ ret.success
  /\ At(ret.a_data_in, 2) = 12
  /\ Value(variable, <<"io::input", "RingRedRest", 1>>) = On
  /\ Value(variable, <<"io::input", "RingRedRest", 2>>) = Off
  /\ ret.response_data[3 + 1] = 64

C24_NonHexStringIsRejected ==
  [][ (/\ ret'.op = "SetMMU16ChannelCompatibility_hexstr"
       /\ Len(ret'.a_hexstr) = 30
       /\ \E k \in 1..30 : ~IsHexDigit(ret'.a_hexstr[k]))
        => \A p \in ChannelPairs :
             Compatibility(variable', p[1], p[2]) = Compatibility(variable, p[1], p[2]) ]_vars

(***************************************************************************)
(* Zeroing the compatibility matrix                                        *)
(***************************************************************************)
\* The variables that are no channel compatibility pair.
OtherVariables(tbl) ==
  UNION { UNION { { <<ns, name, i>> : i \in DOMAIN tbl[ns][name] } :
                    name \in DOMAIN tbl[ns] \ {"ChannelCompatibilityStatus"} } :
            ns \in DOMAIN tbl }

\* C25: after ZeroOutMMU16ChannelCompatibility each of the 120 pair variables
\* ChannelCompatibilityStatus<i, j>, 1 <= i < j <= 16, is Off whatever it was
\* before, every other variable has the value it had, and a second
\* application changes nothing.
C25_ZeroOutClearsThePairsOnly ==
  [][ret'.op = "ZeroOutMMU16ChannelCompatibility"
       => /\ \A p \in ChannelPairs : Compatibility(variable', p[1], p[2]) = Off
          /\ \A T \in OtherVariables(variable) : Value(variable', T) = Value(variable, T)
          /\ DOMAIN variable' = DOMAIN variable
          /\ ZeroOutMMU16ChannelCompatibility(variable') = variable']_vars

\* The matrix has been zeroed while the pairs (2, 3) and (15, 16) were On;
\* RingRedRest<1> and the green status of channel 14 are still On.
C25_Witness ==
  /\ ret.op = "ZeroOutMMU16ChannelCompatibility"
  /\ Compatibility(variable, 2, 3) = Off
  /\ Compatibility(variable, 15, 16) = Off
  /\ Value(variable, <<"io::input", "RingRedRest", 1>>) = On
  /\ Value(variable, <<"mmu", "ChannelGreenWalkStatus", 14>>) = On

(***************************************************************************)
(* The callbacks of a tick                                                 *)
(***************************************************************************)
\* The turning movements that the calls of a tick pass for channel I, in the
\* order of the calls.
CallsOfChannel(calls, I) ==
  LET OfChannel(c) == c.channel = I
      made == SelectSeq(calls, OfChannel)
  IN  [k \in 1..Len(made) |-> <<made[k].approach, made[k].turn>>]

\* C26: a tick that processes the wirings updates every detector channel and
\* calls the loadswitch callback once for each entry of the loadswitch wiring
\* lists, the channels in ascending order and the entries of a channel in the
\* order of its list, each call passing the state() of its channel as the
\* drivers give it at that moment; a channel whose signal head is empty gets
\* no call.
C26_TickCallsEveryWiringOnce ==
  [][(ret'.op = "Advance" /\ ret'.result = "S_OK")
       => /\ \A c \in 1..num_detector_channels :
               Value(variable', VehicleDetCall(c))
                 = IF \E k \in 1..Len(detector_wirings_[c]) :
                        detector_wirings_[c][k] \in ret'.activated
                   THEN On ELSE Off
          /\ \A a, b \in 1..Len(ret'.calls) :
               a < b => ret'.calls[a].channel <= ret'.calls[b].channel
          /\ \A I \in 1..num_loadswitches :
               CallsOfChannel(ret'.calls, I) = loadswitch_wirings_[I]
          /\ \A k \in 1..Len(ret'.calls) :
               /\ ret'.calls[k].channel \in 1..num_loadswitches
               /\ ret'.calls[k].state = state(ret'.calls[k].channel, variable)]_vars

\* A tick has called the callback for the two turning movements of channel 1
\* with Green and then for the turning movement of channel 16 with Yellow;
\* channel 2, whose signal head is empty, has no call.
C26_Witness ==
  /\ ret.op = "Advance"
  /\ ret.result = "S_OK"
  /\ loadswitch_wirings_[2] = <<>>
  /\ ret.calls = << [channel |-> 1, state |-> Green, approach |-> 1, turn |-> Through],
                    [channel |-> 1, state |-> Green, approach |-> 1, turn |-> Left],
                    [channel |-> 16, state |-> Yellow, approach |-> 2, turn |-> Right] >>

(***************************************************************************)
(* Repeated configuration loads                                            *)
(***************************************************************************)
\* The wiring lists hold what one load of the configuration into the lists of
\* a new object leaves: each accepted entry of the configuration once.
LoadedOnce(a_config) ==
  /\ a_config.loadable
  /\ loadswitch_wirings_
       = load_config_loadswitch(a_config, VerifyFunc(Signals),
                                [I \in 1..num_loadswitches |-> <<>>]).wirings
  /\ detector_wirings_
       = load_config_detector(a_config, VerifyFunc(Sensors),
                              [I \in 1..num_detector_channels |-> <<>>]).wirings

\* C27: when a configuration is loaded again into an object whose wiring
\* lists hold the entries of that same configuration, for example when the
\* simulation is started, stopped and started again, the lists are as they
\* were: each list holds every configured and accepted turning movement or
\* sensor id once.
C27_ReloadKeepsEachWiringOnce ==
  [][(/\ ret'.op = "SimulationStarted"
      /\ ret'.load_config
      /\ LoadedOnce(ret'.a_config))
       => /\ loadswitch_wirings_' = loadswitch_wirings_
          /\ detector_wirings_' = detector_wirings_]_vars

C29_ResponseAddressIsCommandAddress ==
  (ret.op = "Dispatch" /\ ret.success)
    => ret.response_data[0 + 1] = FrameType(At(ret.a_data_in, 2)).address

(***************************************************************************)
(* The variables that a command changes                                    *)
(***************************************************************************)
\* The loadswitch channels of which a driver variable of io::output differs
\* between the tables old and new.
ChangedChannels(old, new) ==
  { I \in 1..num_loadswitches :
      \E k \in 1..3 : Value(new, LoadswitchDriver(I)[k]) # Value(old, LoadswitchDriver(I)[k]) }

\* C30: a Dispatch of a type 0 command changes variables of the mmu domain
\* only, so no driver variable of io::output and no state() of a loadswitch
\* channel changes by it; of the commands of the table only type 10 changes
\* io::output drivers of the channels 1 to 8, and no others, and only type 11
\* those of the channels 9 to 16, and no others.
C30_OnlyBiuFramesDriveTheLoadswitches ==
  [][(ret'.op = "Dispatch" /\ ret'.success)
       => LET id == At(ret'.a_data_in, 2)
              changed == ChangedChannels(variable, variable')
          IN  /\ id = 0 => /\ \A T \in { U \in Variables : U[1] # "mmu" } :
                                Value(variable', T) = Value(variable, T)
                           /\ \A I \in 1..num_loadswitches :
                                state(I, variable') = state(I, variable)
              /\ changed \cap (1..8) # {} => id = 10
              /\ changed \cap (9..16) # {} => id = 11
              /\ id = 10 => changed \subseteq 1..8
              /\ id = 11 => changed \subseteq 9..16]_vars

\* A type 0 command with every payload bit set has been dispatched after a
\* type 10 command with every payload bit set: the mmu drivers of the channels
\* 1 and 9 are On, of the io::output drivers those of channel 1 are On and
\* those of channel 9 are Off.
C30_Witness ==
  /\ ret.op = "Dispatch"
  /\ ret.success
  /\ At(ret.a_data_in, 2) = 0
  /\ Value(variable, <<"mmu", "ChannelGreenWalkDriver", 1>>) = On
  /\ Value(variable, <<"mmu", "ChannelGreenWalkDriver", 9>>) = On
  /\ \A k \in 1..3 : Value(variable, LoadswitchDriver(1)[k]) = On
  /\ \A k \in 1..3 : Value(variable, LoadswitchDriver(9)[k]) = Off

=============================================================================
